---- MODULE Spec2Model ----
(***************************************************************************)
(* A model of the EBB device protocol layer of rsaxi (src/src/device.rs):  *)
(* the serial command/response client, its cached pen and motor state,     *)
(* the construction sequence of Device::new and the teardown of Drop.      *)
(*                                                                         *)
(* Text is modelled as sequences of one-character strings, so that the     *)
(* string operations of the code (trim, starts_with, ends_with,            *)
(* trim_end_matches, split, parse) are computed and not assumed.           *)
(***************************************************************************)
EXTENDS Integers, Sequences, FiniteSets, TLC

VARIABLES
    pc,              \* position of the owning session in new / ready / drop
    connected,       \* Device.connected
    is_lowered,      \* Device.is_lowered
    step_mode,       \* Device.step_mode (0 = Disable .. 5 = FullStep)
    motor1_enabled,  \* Device.motor1_enabled
    motor2_enabled,  \* Device.motor2_enabled
    rx,              \* bytes waiting in the port's input buffer
    last,            \* record of the most recent call of a device method
    q_m1,            \* Device::new: value read from pin E.0
    q_m2,            \* Device::new: value read from pin C.1
    q_ms,            \* Device::new: values read from E.2, E.1, A.6 so far
    built,           \* Device::new returned Ok(device)
    sp_acked,        \* V of the last acknowledged pen_state call (-1: none)
    em_acked,        \* <<enable1, enable2>> of the last acknowledged EM (<<>>: none)
    options,         \* Axidraw.options
    draw,            \* Axidraw::draw: its drawing, loop index and position
    plan,            \* run_plan: the samples of the plan and the slice reached
    planning         \* Plan::new: its points, segments, loop index and result

vars == <<pc, connected, is_lowered, step_mode, motor1_enabled, motor2_enabled,
          rx, last, q_m1, q_m2, q_ms, built, sp_acked, em_acked,
          options, draw, plan, planning>>

axi == <<options, draw, plan, planning>>

cache == <<is_lowered, step_mode, motor1_enabled, motor2_enabled, connected>>

-----------------------------------------------------------------------------
(* Text *)

CR == "\r"
LF == "\n"
NonAscii == {"U+00E9"}
Whitespace == {" ", "\t", LF, CR, "\f"}
Digits == <<"0", "1", "2", "3", "4", "5", "6", "7", "8", "9">>
LowerCase == <<"a", "b", "c", "d", "e", "f", "g", "h", "i", "j", "k", "l", "m",
               "n", "o", "p", "q", "r", "s", "t", "u", "v", "w", "x", "y", "z">>
UpperCase == <<"A", "B", "C", "D", "E", "F", "G", "H", "I", "J", "K", "L", "M",
               "N", "O", "P", "Q", "R", "S", "T", "U", "V", "W", "X", "Y", "Z">>

is_ascii(s) == \A i \in 1..Len(s) : s[i] \notin NonAscii

contains_crlf(s) == \E i \in 1..Len(s) : s[i] = LF \/ s[i] = CR

\* str::trim_start: from the first character that is not whitespace
trim_start(s) ==
    LET k == CHOOSE i \in 1..(Len(s) + 1) :
                 /\ i = Len(s) + 1 \/ s[i] \notin Whitespace
                 /\ \A j \in 1..(i - 1) : s[j] \in Whitespace
    IN  SubSeq(s, k, Len(s))

\* str::trim_end: up to the last character that is not whitespace
trim_end(s) ==
    LET k == CHOOSE i \in 0..Len(s) :
                 /\ i = 0 \/ s[i] \notin Whitespace
                 /\ \A j \in (i + 1)..Len(s) : s[j] \in Whitespace
    IN  SubSeq(s, 1, k)

trim(s) == trim_end(trim_start(s))

UpperOf ==
    [c \in {LowerCase[i] : i \in 1..26} |->
        UpperCase[CHOOSE i \in 1..26 : LowerCase[i] = c]]

upper_char(c) == IF c \in DOMAIN UpperOf THEN UpperOf[c] ELSE c

to_uppercase(s) == [i \in 1..Len(s) |-> upper_char(s[i])]

starts_with(s, p) == Len(s) >= Len(p) /\ SubSeq(s, 1, Len(p)) = p

ends_with(s, p) ==
    Len(s) >= Len(p) /\ SubSeq(s, Len(s) - Len(p) + 1, Len(s)) = p

RECURSIVE trim_end_matches(_, _)
trim_end_matches(s, p) ==
    IF ends_with(s, p)
    THEN trim_end_matches(SubSeq(s, 1, Len(s) - Len(p)), p)
    ELSE s

RECURSIVE split(_, _)
split(s, sep) ==
    IF \E i \in 1..Len(s) : s[i] = sep
    THEN LET k == CHOOSE i \in 1..Len(s) :
                      s[i] = sep /\ \A j \in 1..(i - 1) : s[j] # sep
         IN  <<SubSeq(s, 1, k - 1)>> \o split(SubSeq(s, k + 1, Len(s)), sep)
    ELSE <<s>>

digit_value(c) == (CHOOSE i \in 1..10 : Digits[i] = c) - 1

is_digit(c) == \E i \in 1..10 : Digits[i] = c

RECURSIVE nat_value(_)
nat_value(s) ==
    IF s = <<>> THEN 0
    ELSE 10 * nat_value(SubSeq(s, 1, Len(s) - 1)) + digit_value(s[Len(s)])

\* str::parse::<u8>: an optional '+', then digits, value at most 255; -1 is Err
parse_u8(s) ==
    LET d == IF s # <<>> /\ Head(s) = "+" THEN Tail(s) ELSE s
    IN  IF d # <<>> /\ (\A i \in 1..Len(d) : is_digit(d[i]))
           /\ nat_value(d) <= 255
        THEN nat_value(d)
        ELSE -1

RECURSIVE fmt_nat(_)
fmt_nat(n) ==
    IF n < 10 THEN <<Digits[n + 1]>>
    ELSE fmt_nat(n \div 10) \o <<Digits[(n % 10) + 1]>>

\* i32::MIN, -2^31
I32_MIN == -2147483647 - 1

\* format!("{}", n) for an integer; the digits of 2^31 are written in two
\* parts
fmt(n) ==
    IF n = I32_MIN THEN <<"-">> \o fmt_nat(214748364) \o <<"8">>
    ELSE IF n < 0 THEN <<"-">> \o fmt_nat(-n)
    ELSE fmt_nat(n)

\* n copies of the character c
repeat(c, n) == [i \in 1..n |-> c]

\* Option<T>: None is the empty sequence, Some(x) a one-element sequence
None == <<>>
Some(x) == <<x>>

-----------------------------------------------------------------------------
(* Device::command *)

MaxLine == 256

OKCRLF == <<"O", "K", CR, LF>>

no_ok_commands ==
    {<<"V">>, <<"I">>, <<"A">>, <<"M", "R">>, <<"P", "I">>, <<"Q", "M">>}

\* the line handed to write_all
full_cmd(cmd) == trim(cmd) \o <<CR>>

\* the test of lines 312-315: TRUE when the trailing OK is required
expects_ok(cmd) ==
    ~ \E c \in no_ok_commands : starts_with(to_uppercase(cmd), c)

\* the bytes read_full_response returns: everything in the input buffer up
\* to the read timeout.  buf is what was already waiting (the late reply of
\* an earlier command); reply arrives before the timeout unless late.
read_full_response(buf, reply, late) == buf \o (IF late THEN <<>> ELSE reply)

\* what stays in (or later reaches) the input buffer after the call
left_over(reply, late) == IF late THEN reply ELSE <<>>

\* a check that accepts the OK but leaves it in what it returns
check_response_unstripped(cmd, response) ==
    IF expects_ok(cmd)
    THEN IF ends_with(response, OKCRLF)
         THEN [result |-> "Ok", payload |-> response]
         ELSE [result |-> "CommandError", payload |-> <<>>]
    ELSE [result |-> "Ok", payload |-> response]

\* the check of lines 316-327 on the bytes read
check_response(cmd, response) ==
    IF expects_ok(cmd)
    THEN IF ends_with(response, OKCRLF)
         THEN [result |-> "Ok", payload |-> trim_end_matches(response, OKCRLF)]
         ELSE [result |-> "CommandError", payload |-> <<>>]
    ELSE [result |-> "Ok", payload |-> response]

\* a call that returns before touching the port
not_sent(cmd, err, buf) ==
    [cmd |-> cmd, result |-> err, payload |-> <<>>, line |-> <<>>,
     writes |-> 0, stale |-> <<>>, response |-> <<>>, io |-> "none",
     rx |-> buf]

\* a transmit that writes the line a second time when the OK is missing
transmit_retry(cmd, buf, reply, late, io) ==
    IF io = "write_err"
    THEN [cmd |-> cmd, result |-> "CommandError", payload |-> <<>>,
          line |-> full_cmd(cmd), writes |-> 1, stale |-> <<>>,
          response |-> <<>>, io |-> io, rx |-> buf]
    ELSE IF io = "read_err"
    THEN [cmd |-> cmd, result |-> "CommandError", payload |-> <<>>,
          line |-> full_cmd(cmd), writes |-> 1, stale |-> <<>>,
          response |-> <<>>, io |-> io, rx |-> left_over(reply, late)]
    ELSE LET response == read_full_response(buf, reply, late)
             c == check_response(cmd, response)
         IN  [cmd |-> cmd, line |-> full_cmd(cmd),
              writes |-> IF c.result = "Ok" THEN 1 ELSE 2, stale |-> buf,
              response |-> response, io |-> io,
              rx |-> left_over(reply, late)] @@ c

\* write_all followed by read_full_response and the OK check; io is the
\* outcome of the port operations ("ok", "write_err", "read_err")
transmit(cmd, buf, reply, late, io) ==
    IF io = "write_err"
    THEN [cmd |-> cmd, result |-> "CommandError", payload |-> <<>>,
          line |-> full_cmd(cmd), writes |-> 1, stale |-> <<>>,
          response |-> <<>>, io |-> io, rx |-> buf]
    ELSE IF io = "read_err"
    THEN [cmd |-> cmd, result |-> "CommandError", payload |-> <<>>,
          line |-> full_cmd(cmd), writes |-> 1, stale |-> <<>>,
          response |-> <<>>, io |-> io, rx |-> left_over(reply, late)]
    ELSE LET response == read_full_response(buf, reply, late)
             c == check_response(cmd, response)
         IN  [cmd |-> cmd, line |-> full_cmd(cmd), writes |-> 1, stale |-> buf,
              response |-> response, io |-> io,
              rx |-> left_over(reply, late)] @@ c

\* a command whose length check forgets the CR of the line
command_short_by_one(cmd, conn, buf, reply, late, io) ==
    IF cmd = <<>> THEN not_sent(cmd, "CommandError", buf)
    ELSE IF ~is_ascii(cmd) \/ contains_crlf(cmd)
    THEN not_sent(cmd, "CommandError", buf)
    ELSE IF Len(trim(cmd)) > MaxLine
    THEN not_sent(cmd, "CommandError", buf)
    ELSE IF conn # TRUE THEN not_sent(cmd, "ConnectionError", buf)
    ELSE transmit(cmd, buf, reply, late, io)

\* Device::command(cmd) with the device connected or not (conn), buf in the
\* input buffer, and the device's answer (reply, late, io)
\* a command that does not look at the connection flag
command_unconnected(cmd, conn, buf, reply, late, io) ==
    IF cmd = <<>> THEN not_sent(cmd, "CommandError", buf)
    ELSE IF ~is_ascii(cmd) \/ contains_crlf(cmd)
    THEN not_sent(cmd, "CommandError", buf)
    ELSE IF Len(full_cmd(cmd)) > MaxLine
    THEN not_sent(cmd, "CommandError", buf)
    ELSE transmit(cmd, buf, reply, late, io)

command(cmd, conn, buf, reply, late, io) ==
    IF cmd = <<>> THEN not_sent(cmd, "CommandError", buf)
    ELSE IF ~is_ascii(cmd) \/ contains_crlf(cmd)
    THEN not_sent(cmd, "CommandError", buf)
    ELSE IF Len(full_cmd(cmd)) > MaxLine
    THEN not_sent(cmd, "CommandError", buf)
    ELSE IF conn # TRUE THEN not_sent(cmd, "ConnectionError", buf)
    ELSE transmit(cmd, buf, reply, late, io)

\* a typed method that returns InvalidValue before calling command
invalid_value(buf) == not_sent(<<>>, "InvalidValue", buf)

\* the record kept of a call: which method, and what command() did
called(op, r) ==
    [op |-> op, cmd |-> r.cmd, result |-> r.result, payload |-> r.payload,
     line |-> r.line, writes |-> r.writes, stale |-> r.stale,
     response |-> r.response, io |-> r.io]

-----------------------------------------------------------------------------
(* The typed methods of Device, as functions of their arguments *)

StepModes == 0..5     \* StepMode::Disable = 0 .. StepMode::FullStep = 5

comma == <<",">>

\* pen_state: the argument checks of lines 562-579 and 585-597
pen_state_valid(value, duration, portb_pin) ==
    /\ value = 0 \/ value = 1
    /\ portb_pin = None \/ portb_pin[1] <= 7
    /\ duration = None \/ (duration[1] >= 1 /\ duration[1] <= 65535)

\* pen_state: the command text "SP,Value[,Duration[,PortB_Pin]]"
pen_state_cmd(value, duration, portb_pin) ==
    <<"S", "P">> \o comma \o fmt(value)
      \o (IF duration # None THEN comma \o fmt(duration[1]) ELSE <<",", "0">>)
      \o (IF portb_pin # None THEN comma \o fmt(portb_pin[1]) ELSE <<>>)

pen_state(value, duration, portb_pin, conn, buf, reply, late, io) ==
    IF pen_state_valid(value, duration, portb_pin)
    THEN command(pen_state_cmd(value, duration, portb_pin), conn, buf, reply, late, io)
    ELSE invalid_value(buf)

\* a cache update that does not look at the result of the call
pen_state_lowered_unchecked(value, r, lowered) == value = 0

\* pen_state, line 613: is_lowered after the call that gave r
pen_state_lowered(value, r, lowered) ==
    IF r.result = "Ok" THEN value = 0 ELSE lowered

\* pen_toggle: "TP[,duration]"
pen_toggle(duration, conn, buf, reply, late, io) ==
    IF duration # None /\ (duration[1] < 1 \/ duration[1] > 65535)
    THEN invalid_value(buf)
    ELSE command(<<"T", "P">> \o (IF duration # None
                                  THEN comma \o fmt(duration[1]) ELSE <<>>),
                 conn, buf, reply, late, io)

\* pen_up with the configuration of axidraw.rs (60, 30, speed 150, delay 0)
PEN_UP_POSITION == 60
PEN_DOWN_POSITION == 30
PEN_UP_SPEED == 150
PEN_UP_DELAY == 0
PEN_DOWN_SPEED == 150

abs(n) == IF n < 0 THEN -n ELSE n

max(a, b) == IF a >= b THEN a ELSE b

pen_up_delay_ms ==
    max(0, ((1000 * abs(PEN_UP_POSITION - PEN_DOWN_POSITION)) \div PEN_UP_SPEED)
           + PEN_UP_DELAY)

pen_up(conn, buf, reply, late, io) ==
    pen_state(1, Some(pen_up_delay_ms), None, conn, buf, reply, late, io)

\* axidraw.rs, lines 12-22 and Options::default, lines 41-60; the velocity
\* is a whole number of units per second
PEN_DOWN_DELAY == 0
MICROSTEPPING_MODE == 1
TIMESLICE_MS == 100
MAX_VELOCITY == 20
ACCELERATION == 16

DefaultOptions ==
    [steps_per_unit |-> 80 \div (2 ^ (MICROSTEPPING_MODE - 1)),
     pen_up_position |-> PEN_UP_POSITION,
     pen_up_speed |-> PEN_UP_SPEED,
     pen_up_delay |-> PEN_UP_DELAY,
     pen_down_position |-> PEN_DOWN_POSITION,
     pen_down_speed |-> PEN_DOWN_SPEED,
     pen_down_delay |-> PEN_DOWN_DELAY,
     max_velocity |-> MAX_VELOCITY]

\* the quotient of i32 division: rounded towards zero
div_trunc(a, b) ==
    IF (a >= 0) = (b > 0) THEN abs(a) \div abs(b) ELSE -(abs(a) \div abs(b))

\* Device::pen_down, lines 494-499: the delay in ms given to pen_state;
\* the device holds the pen fields of the options (axidraw.rs, lines 123-128)
pen_down_delay_ms(o) ==
    max(0, div_trunc(1000 * abs(o.pen_up_position - o.pen_down_position),
                     o.pen_down_speed)
           + o.pen_down_delay)

pen_down(o, conn, buf, reply, late, io) ==
    pen_state(0, Some(pen_down_delay_ms(o)), None, conn, buf, reply, late, io)

\* set_motors, lines 905-912: the values sent as "EM,enable1,enable2"
em_values(m1_enable, m2_enable, mode) ==
    <<IF m1_enable THEN mode ELSE 0, IF m2_enable THEN 1 ELSE 0>>

em_cmd(e) == <<"E", "M">> \o comma \o fmt(e[1]) \o comma \o fmt(e[2])

\* set_motors, lines 917-919: the cached <<motor1, motor2, mode>> after the
\* call that gave r; old is the cache before
set_motors_cache(m1_enable, m2_enable, mode, r, old) ==
    IF r.result = "Ok" THEN <<m1_enable, m2_enable, mode>> ELSE old

\* abort_motors: "ES,1" or "ES"
abort_cmd(disable_motors) ==
    IF disable_motors THEN <<"E", "S", ",", "1">> ELSE <<"E", "S">>

\* a cache update that takes every acknowledged ES for ES,1
abort_motors_cache_any(disable_motors, r, old) ==
    IF r.result = "Ok" THEN <<FALSE, FALSE, 0>> ELSE old

\* abort_motors, lines 979-983
abort_motors_cache(disable_motors, r, old) ==
    IF r.result = "Ok" /\ disable_motors THEN <<FALSE, FALSE, 0>> ELSE old

\* motor_status, lines 1027-1053: the parse of the QM payload;
\* ok = FALSE is InvalidResponse
motor_status_parse(payload) ==
    LET parts == split(trim(payload), ",")
    IN  IF Len(parts) = 5 /\ parts[1] = <<"Q", "M">>
        THEN [ok |-> TRUE,
              moving1 |-> (LET v == parse_u8(trim(parts[3]))
                           IN  (IF v = -1 THEN 0 ELSE v) # 0),
              moving2 |-> (LET v == parse_u8(trim(parts[4]))
                           IN  (IF v = -1 THEN 0 ELSE v) # 0)]
        ELSE [ok |-> FALSE, moving1 |-> FALSE, moving2 |-> FALSE]

\* wait_for_motors, one turn of the loop: "err" (motor_status failed and the
\* loop is left by ?), "idle" (break) or "moving" (sleep and poll again)
wait_for_motors_turn(r) ==
    IF r.result # "Ok" THEN "err"
    ELSE LET st == motor_status_parse(r.payload)
         IN  IF ~st.ok THEN "err"
             ELSE IF ~st.moving1 /\ ~st.moving2 THEN "idle"
             ELSE "moving"

\* read_pin, lines 431-439: 1 (high), 0 (low) or -1 (InvalidResponse)
read_pin_parse(payload) ==
    LET parts == split(trim(payload), ",")
        value == trim(parts[Len(parts)])
    IN  IF value = <<"1">> THEN 1 ELSE IF value = <<"0">> THEN 0 ELSE -1

read_pin_cmd(port, pin) == <<"P", "I">> \o comma \o <<port>> \o comma \o fmt(pin)

\* query_pen_state, lines 632-648: 1 (lowered), 0 (raised) or -1 (InvalidResponse)
query_pen_parse(payload) ==
    LET t == trim(payload)
    IN  IF t = <<>> THEN -1
        ELSE IF t[1] = "0" THEN 1 ELSE IF t[1] = "1" THEN 0 ELSE -1

\* str::len: the number of bytes of the UTF-8 text
len(s) == Len(s) + Cardinality({i \in 1..Len(s) : s[i] \in NonAscii})

\* nickname: "ST,<nickname>"
nickname(name, conn, buf, reply, late, io) ==
    IF len(name) > 16 THEN invalid_value(buf)
    ELSE IF ~is_ascii(name) THEN invalid_value(buf)
    ELSE command(<<"S", "T">> \o comma \o name, conn, buf, reply, late, io)

\* the ports read_pin and pin_direction accept
Ports == {"A", "B", "C", "D", "E"}

\* read_pin: "PI,<port>,<pin>", then the value is read from the reply
read_pin(port, pin, conn, buf, reply, late, io) ==
    IF port \notin Ports THEN invalid_value(buf)
    ELSE IF pin > 7 THEN invalid_value(buf)
    ELSE LET r == command(read_pin_cmd(port, pin), conn, buf, reply, late, io)
         IN  IF r.result = "Ok" /\ read_pin_parse(r.payload) = -1
             THEN [r EXCEPT !.result = "InvalidResponse"]
             ELSE r

\* pin_direction: the text of line 484, format!("PD,{}, {},{}", ..)
pin_direction_cmd(port, pin, direction) ==
    <<"P", "D">> \o comma \o <<port>> \o comma \o <<" ">> \o fmt(pin)
      \o comma \o fmt(direction)

pin_direction(port, pin, direction, conn, buf, reply, late, io) ==
    IF port \notin Ports THEN invalid_value(buf)
    ELSE IF pin > 7 THEN invalid_value(buf)
    ELSE IF direction > 1 THEN invalid_value(buf)
    ELSE command(pin_direction_cmd(port, pin, direction), conn, buf, reply, late, io)

\* the limits of the EBB commands, as the checks of device.rs write them
HM_MIN_FREQUENCY == 2
HM_MAX_FREQUENCY == 25000
HM_MAX_POSITION == 4294967
SM_MAX == 16777215

\* i32::abs where the build does not check for overflow: the absolute
\* value of i32::MIN is i32::MIN.  Where the build checks, the call panics:
\* HomeOverflow, StepperMoveOverflow, StepperMoveMixedOverflow
i32_abs(n) == IF n = I32_MIN THEN I32_MIN ELSE abs(n)

\* home: "HM,<frequency>[,<position1>][,<position2>]"
home_cmd(step_frequency, position1, position2) ==
    <<"H", "M">> \o comma \o fmt(step_frequency)
      \o (IF position1 # None THEN comma \o fmt(position1[1]) ELSE <<>>)
      \o (IF position2 # None THEN comma \o fmt(position2[1]) ELSE <<>>)

\* a home whose lower limit is one too low
home_from_one(step_frequency, position1, position2, conn, buf, reply, late, io) ==
    IF step_frequency < HM_MIN_FREQUENCY - 1 \/ step_frequency > HM_MAX_FREQUENCY
    THEN invalid_value(buf)
    ELSE command(home_cmd(step_frequency, position1, position2),
                 conn, buf, reply, late, io)

home(step_frequency, position1, position2, conn, buf, reply, late, io) ==
    IF step_frequency < HM_MIN_FREQUENCY \/ step_frequency > HM_MAX_FREQUENCY
    THEN invalid_value(buf)
    ELSE IF position1 # None /\ i32_abs(position1[1]) > HM_MAX_POSITION
    THEN invalid_value(buf)
    ELSE IF position2 # None /\ i32_abs(position2[1]) > HM_MAX_POSITION
    THEN invalid_value(buf)
    ELSE command(home_cmd(step_frequency, position1, position2),
                 conn, buf, reply, late, io)

\* stepper_move: "SM,<duration>,<steps1>[,<steps2>]"
stepper_move_cmd(duration_ms, axis_steps1, axis_steps2) ==
    <<"S", "M">> \o comma \o fmt(duration_ms) \o comma \o fmt(axis_steps1)
      \o (IF axis_steps2 # None THEN comma \o fmt(axis_steps2[1]) ELSE <<>>)

stepper_move(duration_ms, axis_steps1, axis_steps2, conn, buf, reply, late, io) ==
    IF duration_ms < 1 \/ duration_ms > SM_MAX THEN invalid_value(buf)
    ELSE IF i32_abs(axis_steps1) > SM_MAX THEN invalid_value(buf)
    ELSE IF axis_steps2 # None /\ i32_abs(axis_steps2[1]) > SM_MAX
    THEN invalid_value(buf)
    ELSE command(stepper_move_cmd(duration_ms, axis_steps1, axis_steps2),
                 conn, buf, reply, late, io)

\* stepper_move_mixed: "XM,<duration>,<stepsA>,<stepsB>"
stepper_move_mixed_cmd(step_ms, axis_steps_a, axis_steps_b) ==
    <<"X", "M">> \o comma \o fmt(step_ms) \o comma \o fmt(axis_steps_a)
      \o comma \o fmt(axis_steps_b)

stepper_move_mixed(step_ms, axis_steps_a, axis_steps_b, conn, buf, reply, late, io) ==
    IF step_ms < 1 \/ step_ms > SM_MAX THEN invalid_value(buf)
    ELSE IF i32_abs(axis_steps_a) > SM_MAX THEN invalid_value(buf)
    ELSE IF i32_abs(axis_steps_b) > SM_MAX THEN invalid_value(buf)
    ELSE command(stepper_move_mixed_cmd(step_ms, axis_steps_a, axis_steps_b),
                 conn, buf, reply, late, io)

\* home, stepper_move, stepper_move_mixed: the call reaches i32::abs with
\* i32::MIN
home_overflows(step_frequency, position1, position2) ==
    IF step_frequency < HM_MIN_FREQUENCY \/ step_frequency > HM_MAX_FREQUENCY THEN FALSE
    ELSE IF position1 = Some(I32_MIN) THEN TRUE
    ELSE IF position1 # None /\ i32_abs(position1[1]) > HM_MAX_POSITION THEN FALSE
    ELSE position2 = Some(I32_MIN)

stepper_move_overflows(duration_ms, axis_steps1, axis_steps2) ==
    IF duration_ms < 1 \/ duration_ms > SM_MAX THEN FALSE
    ELSE IF axis_steps1 = I32_MIN THEN TRUE
    ELSE IF i32_abs(axis_steps1) > SM_MAX THEN FALSE
    ELSE axis_steps2 = Some(I32_MIN)

stepper_move_mixed_overflows(step_ms, axis_steps_a, axis_steps_b) ==
    IF step_ms < 1 \/ step_ms > SM_MAX THEN FALSE
    ELSE IF axis_steps_a = I32_MIN THEN TRUE
    ELSE IF i32_abs(axis_steps_a) > SM_MAX THEN FALSE
    ELSE axis_steps_b = I32_MIN

\* low_level_move: "LM,<rate1>,<steps1>,<accel1>,<rate2>,<steps2>,<accel2>[,<clear>]"
low_level_move_cmd(rate1, steps1, accel1, rate2, steps2, accel2, clear) ==
    <<"L", "M">> \o comma \o fmt(rate1) \o comma \o fmt(steps1) \o comma \o fmt(accel1)
      \o comma \o fmt(rate2) \o comma \o fmt(steps2) \o comma \o fmt(accel2)
      \o (IF clear # None THEN comma \o fmt(clear[1]) ELSE <<>>)

\* Device::low_level_move, lines 688-720
low_level_move(rate1, steps1, accel1, rate2, steps2, accel2, clear, conn, buf, reply, late, io) ==
    IF clear # None /\ clear[1] > 3 THEN invalid_value(buf)
    ELSE command(low_level_move_cmd(rate1, steps1, accel1, rate2, steps2, accel2, clear),
                 conn, buf, reply, late, io)

\* a decode that does not look at MS3 when MS1 and MS2 are low
decode_step_mode_two_pins(ms) ==
    IF ms = <<TRUE, TRUE, TRUE>> THEN 1
    ELSE IF ms = <<TRUE, TRUE, FALSE>> THEN 2
    ELSE IF ms = <<FALSE, TRUE, FALSE>> THEN 3
    ELSE IF ms = <<TRUE, FALSE, FALSE>> THEN 4
    ELSE IF ms[1] = FALSE /\ ms[2] = FALSE THEN 5
    ELSE -1

\* query_enable_motors, lines 1000-1012: the step mode for (MS1, MS2, MS3);
\* -1 is InvalidResponse
decode_step_mode(ms) ==
    IF ms = <<TRUE, TRUE, TRUE>> THEN 1
    ELSE IF ms = <<TRUE, TRUE, FALSE>> THEN 2
    ELSE IF ms = <<FALSE, TRUE, FALSE>> THEN 3
    ELSE IF ms = <<TRUE, FALSE, FALSE>> THEN 4
    ELSE IF ms = <<FALSE, FALSE, FALSE>> THEN 5
    ELSE -1

-----------------------------------------------------------------------------
(* The environment: what the board answers, and the arguments callers pass *)

ReplyOK == OKCRLF
ReplyPenUp == <<"1", CR, LF>> \o OKCRLF
ReplyPenDown == <<"0", CR, LF>> \o OKCRLF
ReplyPinLow == <<"P", "I", ",", "0", CR, LF>>
ReplyPinHigh == <<"P", "I", ",", "1", CR, LF>>
ReplyIdle == <<"Q", "M", ",", "0", ",", "0", ",", "0", ",", "0", LF, CR>>
ReplyMoving == <<"Q", "M", ",", "1", ",", "1", ",", "0", ",", "1", LF, CR>>

Replies == {<<>>, ReplyOK, ReplyPenUp, ReplyPenDown, ReplyPinLow, ReplyPinHigh,
            ReplyIdle, ReplyMoving}

\* the replies that may reach the port only after the read timeout
LateReplies == {ReplyOK, ReplyMoving}

\* what the port and the board do during one call of command: the outcome
\* of the port operations, the board's reply, and whether it comes late
Answers ==
    {[io |-> "ok", reply |-> b, late |-> FALSE] : b \in Replies}
    \cup {[io |-> "ok", reply |-> b, late |-> TRUE] : b \in LateReplies}
    \cup {[io |-> x, reply |-> <<>>, late |-> FALSE] : x \in {"write_err", "read_err"}}

\* DeviceOptions.step_mode
OptionModes == {1, 5}

PadLen == 256         \* blanks appended to make an over-long padded command

RawCommands ==
    { <<>>,
      <<"V">>,
      <<"v">>,
      <<"Q", "S">>,
      <<"A", "C", ",", "0", ",", "1">>,
      <<" ", "Q", "M">>,
      <<"S", "T", ",", "U+00E9">>,
      <<"R", CR, "V">>,
      <<"R", LF>>,
      repeat("X", MaxLine - 1),
      repeat("X", MaxLine),
      <<"V">> \o repeat(" ", PadLen) }

PenValues == {0, 1, 2}
PenDurations == {None, Some(0), Some(65535), Some(65536)}
PenPins == {None, Some(7), Some(8)}

\* the answers tried with the typed methods below
ApiAnswers ==
    {a \in Answers :
        \/ a.io = "write_err"
        \/ a.io = "ok" /\ a.reply \in {<<>>, ReplyOK, ReplyPinHigh} /\ ~a.late
        \/ a.io = "ok" /\ a.reply = ReplyOK /\ a.late}

\* arguments at and next to the limits the methods check
Nicknames == {<<"p", "e", "n">>, repeat("n", 16), repeat("n", 17), <<"U+00E9">>}
PortArgs == {"B", "F"}
PinArgs == {7, 8}
DirectionArgs == {0, 1, 2}
Frequencies == {1, 2, 25000, 25001}
Positions == {None, Some(-4294967), Some(4294968)}
MoveDurations == {0, 1, 16777215, 16777216}
StepArgs == {-16777215, 5, 16777216}
OptionalSteps == {None, Some(-5), Some(-16777216)}

\* positions and step counts at the limits, one beyond them, and i32::MIN
LimitPositions ==
    {None, Some(HM_MAX_POSITION), Some(-HM_MAX_POSITION), Some(HM_MAX_POSITION + 1),
     Some(-HM_MAX_POSITION - 1), Some(I32_MIN)}
LimitSteps == {SM_MAX, -SM_MAX, SM_MAX + 1, -SM_MAX - 1, I32_MIN}
OptionalLimitSteps == {None} \cup {Some(s) : s \in LimitSteps}

\* rates of up to 2^31 - 1, accelerations and clear values at and beyond
\* the limit of low_level_move
Rates == {0, 2147483647}
Accelerations == {-1, 0}
Clears == {None, Some(0), Some(3), Some(4)}

\* the board answers OK, or the write fails
StepAnswers == {a \in ApiAnswers : a.io = "write_err" \/ (a.reply = ReplyOK /\ ~a.late)}

-----------------------------------------------------------------------------
(* The state machine *)

NoCall ==
    [op |-> "none", cmd |-> <<>>, result |-> "Ok", payload |-> <<>>,
     line |-> <<>>, writes |-> 0, stale |-> <<>>, response |-> <<>>,
     io |-> "none"]

\* no drawing under way, no plan being run
NoDrawing == [paths |-> <<>>, i |-> 0, stage |-> "none", last_position |-> <<0, 0>>]

NoPlan == [samples |-> <<>>, k |-> 0, sum |-> <<0, 0>>]

NoPlanning == [stage |-> "none"]

\* the Device value built at lines 101-115 of Device::new, port open
Init ==
    /\ pc = "new_sc4"
    /\ connected = TRUE
    /\ is_lowered = FALSE
    /\ step_mode \in OptionModes
    /\ motor1_enabled = FALSE
    /\ motor2_enabled = FALSE
    /\ rx = <<>>
    /\ last = NoCall
    /\ q_m1 = FALSE
    /\ q_m2 = FALSE
    /\ q_ms = <<>>
    /\ built = FALSE
    /\ sp_acked = -1
    /\ em_acked = <<>>
    /\ options = DefaultOptions
    /\ draw = NoDrawing
    /\ plan = NoPlan
    /\ planning = NoPlanning

motors == <<motor1_enabled, motor2_enabled, step_mode>>

\* the cached motor state becomes c = <<motor1, motor2, mode>>
SetMotorCache(c) ==
    /\ motor1_enabled' = c[1]
    /\ motor2_enabled' = c[2]
    /\ step_mode' = c[3]

\* configure, lines 142-157, with the configuration of axidraw.rs
configure_cmd(k) ==
    IF k = "new_sc4" THEN <<"S", "C", ",", "4", ",">> \o fmt(7500 + 205 * PEN_UP_POSITION)
    ELSE IF k = "new_sc5" THEN <<"S", "C", ",", "5", ",">> \o fmt(7500 + 205 * PEN_DOWN_POSITION)
    ELSE IF k = "new_sc11" THEN <<"S", "C", ",", "1", "1", ",">> \o fmt(PEN_UP_SPEED * 5)
    ELSE <<"S", "C", ",", "1", "2", ",">> \o fmt(PEN_DOWN_SPEED * 5)

configure_next(k) ==
    IF k = "new_sc4" THEN "new_sc5"
    ELSE IF k = "new_sc5" THEN "new_sc11"
    ELSE IF k = "new_sc11" THEN "new_sc12"
    ELSE "new_qp"

\* a failing step of Device::new returns by ?, which drops the device
\* a new whose error return lets go of the device without dropping it
new_failed_forgets == "closed"

new_failed == "drop_poll"

\* Device::new, line 118: one command of configure
NewConfigure(a) ==
    /\ pc \in {"new_sc4", "new_sc5", "new_sc11", "new_sc12"}
    /\ \E r \in {command(configure_cmd(pc), connected, rx, a.reply, a.late, a.io)} :
           /\ last' = called("configure", r)
           /\ rx' = r.rx
           /\ pc' = IF r.result = "Ok" THEN configure_next(pc) ELSE new_failed
    /\ UNCHANGED <<connected, is_lowered, step_mode, motor1_enabled,
                   motor2_enabled, q_m1, q_m2, q_ms, built, sp_acked, em_acked>>
    /\ UNCHANGED axi

\* Device::new, line 119: is_lowered = query_pen_state()?
NewQueryPen(a) ==
    /\ pc = "new_qp"
    /\ \E r \in {command(<<"Q", "P">>, connected, rx, a.reply, a.late, a.io)} :
       \E v \in {IF r.result = "Ok" THEN query_pen_parse(r.payload) ELSE -1} :
           /\ last' = [called("query_pen_state", r) EXCEPT
                         !.result = IF r.result = "Ok" /\ v = -1
                                    THEN "InvalidResponse" ELSE r.result]
           /\ rx' = r.rx
           /\ is_lowered' = IF v = -1 THEN is_lowered ELSE (v = 1)
           /\ pc' = IF v = -1 THEN new_failed ELSE "new_pi_e0"
    /\ UNCHANGED <<connected, step_mode, motor1_enabled, motor2_enabled,
                   q_m1, q_m2, q_ms, built, sp_acked, em_acked>>
    /\ UNCHANGED axi

\* the pin read at each position of query_enable_motors, lines 993-998
pin_of(k) ==
    IF k = "new_pi_e0" THEN <<"E", 0>>
    ELSE IF k = "new_pi_c1" THEN <<"C", 1>>
    ELSE IF k = "new_pi_e2" THEN <<"E", 2>>
    ELSE IF k = "new_pi_e1" THEN <<"E", 1>>
    ELSE <<"A", 6>>

\* Device::new, lines 127-131: the cache is set from the values read and the
\* device is returned
new_cache(m1, m2, mode) == <<m1, m2, mode>>

\* Device::new, line 122: one read_pin of query_enable_motors; after the
\* last one the mode is decoded and, with both motors enabled, new returns
NewReadPin(a) ==
    /\ pc \in {"new_pi_e0", "new_pi_c1", "new_pi_e2", "new_pi_e1", "new_pi_a6"}
    /\ \E r \in {command(read_pin_cmd(pin_of(pc)[1], pin_of(pc)[2]),
                        connected, rx, a.reply, a.late, a.io)} :
       \E v \in {IF r.result = "Ok" THEN read_pin_parse(r.payload) ELSE -1} :
       LET ms == q_ms \o <<v = 1>>
           bad == v = -1 \/ (pc = "new_pi_a6" /\ decode_step_mode(ms) = -1)
           done == pc = "new_pi_a6" /\ ~bad /\ q_m1 /\ q_m2
       IN  /\ last' = [called("read_pin", r) EXCEPT
                         !.result = IF r.result = "Ok" /\ bad
                                    THEN "InvalidResponse" ELSE r.result]
           /\ rx' = r.rx
           \* the values read are locals of new: gone when new returns
           /\ q_m1' = IF bad \/ done THEN FALSE
                      ELSE IF pc = "new_pi_e0" THEN v = 1 ELSE q_m1
           /\ q_m2' = IF bad \/ done THEN FALSE
                      ELSE IF pc = "new_pi_c1" THEN v = 1 ELSE q_m2
           /\ q_ms' = IF bad \/ done THEN <<>>
                      ELSE IF pc \in {"new_pi_e2", "new_pi_e1", "new_pi_a6"}
                      THEN ms ELSE q_ms
           /\ pc' = IF bad THEN new_failed
                    ELSE IF pc = "new_pi_e0" THEN "new_pi_c1"
                    ELSE IF pc = "new_pi_c1" THEN "new_pi_e2"
                    ELSE IF pc = "new_pi_e2" THEN "new_pi_e1"
                    ELSE IF pc = "new_pi_e1" THEN "new_pi_a6"
                    ELSE IF done THEN "ready" ELSE "new_em"
           /\ built' = done
           /\ SetMotorCache(IF done
                            THEN new_cache(q_m1, q_m2, decode_step_mode(ms))
                            ELSE motors)
    /\ UNCHANGED <<connected, is_lowered, sp_acked, em_acked>>
    /\ UNCHANGED axi

\* Device::new, lines 123-131: enable_motors(step_mode)?, then the cache is
\* set from the values read and the device is returned
NewEnableMotors(a) ==
    /\ pc = "new_em"
    /\ LET mode == decode_step_mode(q_ms)
           e == em_values(TRUE, TRUE, mode)
       IN  \E r \in {command(em_cmd(e), connected, rx, a.reply, a.late, a.io)} :
           /\ last' = called("enable_motors", r)
           /\ rx' = r.rx
           /\ em_acked' = IF r.result = "Ok" THEN e ELSE em_acked
           /\ pc' = IF r.result = "Ok" THEN "ready" ELSE new_failed
           /\ built' = (r.result = "Ok")
           /\ SetMotorCache(IF r.result = "Ok"
                            THEN new_cache(q_m1, q_m2, mode)
                            ELSE set_motors_cache(TRUE, TRUE, mode, r, motors))
           /\ q_m1' = FALSE
           /\ q_m2' = FALSE
           /\ q_ms' = <<>>
    /\ UNCHANGED <<connected, is_lowered, sp_acked>>
    /\ UNCHANGED axi

\* Device::command called by the owner with any text
Command(cmd, a) ==
    /\ pc = "ready"
    /\ \E r \in {command(cmd, connected, rx, a.reply, a.late, a.io)} :
           /\ last' = called("command", r)
           /\ rx' = r.rx
    /\ UNCHANGED <<pc, connected, is_lowered, step_mode, motor1_enabled,
                   motor2_enabled, q_m1, q_m2, q_ms, built, sp_acked, em_acked>>
    /\ UNCHANGED axi

\* Device::pen_state
PenState(value, duration, portb_pin, a) ==
    /\ pc = "ready"
    /\ \E r \in {pen_state(value, duration, portb_pin, connected, rx, a.reply, a.late, a.io)} :
           /\ last' = called("pen_state", r)
           /\ rx' = r.rx
           /\ is_lowered' = pen_state_lowered(value, r, is_lowered)
           /\ sp_acked' = IF r.result = "Ok" THEN value ELSE sp_acked
    /\ UNCHANGED <<pc, connected, step_mode, motor1_enabled, motor2_enabled,
                   q_m1, q_m2, q_ms, built, em_acked>>
    /\ UNCHANGED axi

\* Device::pen_toggle, lines 521-541; the pen is no longer where the last
\* pen_state call put it
PenToggle(duration, a) ==
    /\ pc = "ready"
    /\ \E r \in {pen_toggle(duration, connected, rx, a.reply, a.late, a.io)} :
           /\ last' = called("pen_toggle", r)
           /\ rx' = r.rx
           /\ is_lowered' = IF r.result = "Ok" THEN ~is_lowered ELSE is_lowered
           /\ sp_acked' = IF r.result = "Ok" THEN -1 ELSE sp_acked
    /\ UNCHANGED <<pc, connected, step_mode, motor1_enabled, motor2_enabled,
                   q_m1, q_m2, q_ms, built, em_acked>>
    /\ UNCHANGED axi

\* Device::set_motors: the body shared by enable_motors and disable_motors
SetMotors(op, motor1_enable, motor2_enable, mode_arg, a) ==
    LET m1_enable == IF motor1_enable = None THEN motor1_enabled ELSE motor1_enable[1]
        m2_enable == IF motor2_enable = None THEN motor2_enabled ELSE motor2_enable[1]
        mode == IF mode_arg = None THEN step_mode ELSE mode_arg[1]
        e == em_values(m1_enable, m2_enable, mode)
    IN  \E r \in {command(em_cmd(e), connected, rx, a.reply, a.late, a.io)} :
        /\ last' = called(op, r)
        /\ rx' = r.rx
        /\ em_acked' = IF r.result = "Ok" THEN e ELSE em_acked
        /\ SetMotorCache(set_motors_cache(m1_enable, m2_enable, mode, r, motors))

\* Device::enable_motors
EnableMotors(mode, a) ==
    /\ pc = "ready"
    /\ SetMotors("enable_motors", Some(TRUE), Some(TRUE), Some(mode), a)
    /\ UNCHANGED <<pc, connected, is_lowered, q_m1, q_m2, q_ms, built, sp_acked>>
    /\ UNCHANGED axi

\* Device::disable_motors
DisableMotors(a) ==
    /\ pc = "ready"
    /\ SetMotors("disable_motors", Some(FALSE), Some(FALSE), None, a)
    /\ UNCHANGED <<pc, connected, is_lowered, q_m1, q_m2, q_ms, built, sp_acked>>
    /\ UNCHANGED axi

\* Device::abort_motors; an acknowledged ES,1 supersedes the last EM
AbortMotors(disable_motors, a) ==
    /\ pc = "ready"
    /\ \E r \in {command(abort_cmd(disable_motors), connected, rx, a.reply, a.late, a.io)} :
           /\ last' = called("abort_motors", r)
           /\ rx' = r.rx
           /\ SetMotorCache(abort_motors_cache(disable_motors, r, motors))
           /\ em_acked' = IF r.result = "Ok" /\ disable_motors THEN <<>> ELSE em_acked
    /\ UNCHANGED <<pc, connected, is_lowered, q_m1, q_m2, q_ms, built, sp_acked>>
    /\ UNCHANGED axi

\* a method that sends one command and touches no cached state
Call(op, r) ==
    /\ pc = "ready"
    /\ last' = called(op, r)
    /\ rx' = r.rx
    /\ UNCHANGED <<pc, connected, is_lowered, step_mode, motor1_enabled,
                   motor2_enabled, q_m1, q_m2, q_ms, built, sp_acked, em_acked>>
    /\ UNCHANGED axi

\* Device::nickname
Nickname(name, a) ==
    \E r \in {nickname(name, connected, rx, a.reply, a.late, a.io)} :
        Call("nickname", r)

\* Device::read_pin
ReadPin(port, pin, a) ==
    \E r \in {read_pin(port, pin, connected, rx, a.reply, a.late, a.io)} :
        Call("read_pin", r)

\* Device::pin_direction
PinDirection(port, pin, direction, a) ==
    \E r \in {pin_direction(port, pin, direction, connected, rx,
                            a.reply, a.late, a.io)} :
        Call("pin_direction", r)

\* a method panics on an arithmetic overflow before it reaches the port:
\* the thread unwinds and the device is dropped
Overflow(op) ==
    /\ pc = "ready"
    /\ pc' = "drop_poll"
    /\ last' = called(op, not_sent(<<>>, "panic", rx))
    /\ UNCHANGED <<connected, is_lowered, step_mode, motor1_enabled,
                   motor2_enabled, rx, q_m1, q_m2, q_ms, built, sp_acked, em_acked>>
    /\ UNCHANGED axi

\* Device::home
Home(step_frequency, position1, position2, a) ==
    \E r \in {home(step_frequency, position1, position2, connected, rx,
                   a.reply, a.late, a.io)} :
        Call("home", r)

\* Device::home, stepper_move and stepper_move_mixed in a build that checks
\* for overflow, called with i32::MIN
HomeOverflow(step_frequency, position1, position2) ==
    home_overflows(step_frequency, position1, position2) /\ Overflow("home")

StepperMoveOverflow(duration_ms, axis_steps1, axis_steps2) ==
    stepper_move_overflows(duration_ms, axis_steps1, axis_steps2) /\ Overflow("stepper_move")

StepperMoveMixedOverflow(step_ms, axis_steps_a, axis_steps_b) ==
    /\ stepper_move_mixed_overflows(step_ms, axis_steps_a, axis_steps_b)
    /\ Overflow("stepper_move_mixed")

\* Device::stepper_move
StepperMove(duration_ms, axis_steps1, axis_steps2, a) ==
    \E r \in {stepper_move(duration_ms, axis_steps1, axis_steps2, connected, rx,
                           a.reply, a.late, a.io)} :
        Call("stepper_move", r)

\* Device::stepper_move_mixed
StepperMoveMixed(step_ms, axis_steps_a, axis_steps_b, a) ==
    \E r \in {stepper_move_mixed(step_ms, axis_steps_a, axis_steps_b, connected,
                                 rx, a.reply, a.late, a.io)} :
        Call("stepper_move_mixed", r)

\* Device::low_level_move
LowLevelMove(rate1, steps1, accel1, rate2, steps2, accel2, clear, a) ==
    \E r \in {low_level_move(rate1, steps1, accel1, rate2, steps2, accel2, clear,
                             connected, rx, a.reply, a.late, a.io)} :
        Call("low_level_move", r)

\* Device::disconnect, lines 1096-1101
disconnect(conn) == FALSE

Disconnect ==
    /\ pc = "ready"
    /\ connected' = disconnect(connected)
    /\ last' = called("disconnect", not_sent(<<>>, "Ok", rx))
    /\ UNCHANGED <<pc, is_lowered, step_mode, motor1_enabled, motor2_enabled,
                   rx, q_m1, q_m2, q_ms, built, sp_acked, em_acked>>
    /\ UNCHANGED axi

\* main, lines 161-168: pen_up(); on an error the process exits at once
\* (std::process::exit runs no destructor), otherwise main returns and the
\* device is dropped
main_after_pen_up(r) == IF r.result = "Ok" THEN "drop_poll" ELSE "exited"

MainPenUp(a) ==
    /\ pc = "ready"
    /\ \E r \in {pen_up(connected, rx, a.reply, a.late, a.io)} :
           /\ last' = called("pen_up", r)
           /\ rx' = r.rx
           /\ is_lowered' = pen_state_lowered(1, r, is_lowered)
           /\ sp_acked' = IF r.result = "Ok" THEN 1 ELSE sp_acked
           /\ pc' = main_after_pen_up(r)
    /\ UNCHANGED <<connected, step_mode, motor1_enabled, motor2_enabled,
                   q_m1, q_m2, q_ms, built, em_acked>>
    /\ UNCHANGED axi

\* the owner lets go of the device: Drop::drop starts
DropBegin ==
    /\ pc = "ready"
    /\ pc' = "drop_poll"
    /\ UNCHANGED <<connected, is_lowered, step_mode, motor1_enabled,
                   motor2_enabled, rx, last, q_m1, q_m2, q_ms, built,
                   sp_acked, em_acked>>
    /\ UNCHANGED axi

\* Drop::drop, line 1108: where drop continues after one turn of
\* wait_for_motors; its error is not looked at
drop_after_poll(turn) == IF turn = "moving" THEN "drop_sleep" ELSE "drop_em"

\* wait_for_motors, lines 926-933: one motor_status (QM) and its test
DropPoll(a) ==
    /\ pc = "drop_poll"
    /\ \E r \in {command(<<"Q", "M">>, connected, rx, a.reply, a.late, a.io)} :
           /\ last' = [called("motor_status", r) EXCEPT
                         !.result = IF wait_for_motors_turn(r) = "err" /\ r.result = "Ok"
                                    THEN "InvalidResponse" ELSE r.result]
           /\ rx' = r.rx
           /\ pc' = drop_after_poll(wait_for_motors_turn(r))
    /\ UNCHANGED <<connected, is_lowered, step_mode, motor1_enabled,
                   motor2_enabled, q_m1, q_m2, q_ms, built, sp_acked, em_acked>>
    /\ UNCHANGED axi

\* wait_for_motors, line 936: sleep 10 ms, then poll again
DropSleep ==
    /\ pc = "drop_sleep"
    /\ pc' = "drop_poll"
    /\ UNCHANGED <<connected, is_lowered, step_mode, motor1_enabled,
                   motor2_enabled, rx, last, q_m1, q_m2, q_ms, built,
                   sp_acked, em_acked>>
    /\ UNCHANGED axi

\* Drop::drop, lines 1109-1112: disable_motors (its error only logged),
\* then disconnect
DropDisable(a) ==
    /\ pc = "drop_em"
    /\ SetMotors("disable_motors", Some(FALSE), Some(FALSE), None, a)
    /\ connected' = disconnect(connected)
    /\ pc' = "closed"
    /\ UNCHANGED <<is_lowered, q_m1, q_m2, q_ms, built, sp_acked>>
    /\ UNCHANGED axi

Teardown ==
    \/ \E a \in Answers : DropPoll(a)
    \/ DropSleep
    \/ \E a \in Answers : DropDisable(a)

\* the life of a Device in main: new, pen_up, drop
Next ==
    \/ \E a \in Answers : NewConfigure(a)
    \/ \E a \in Answers : NewQueryPen(a)
    \/ \E a \in Answers : NewReadPin(a)
    \/ \E a \in Answers : NewEnableMotors(a)
    \/ \E a \in Answers : MainPenUp(a)
    \/ Disconnect
    \/ DropBegin
    \/ Teardown

Spec == Init /\ [][Next]_vars

\* The thread that runs Drop::drop keeps running: it does not stay for ever
\* in its sleep, before a poll or before the EM.  A poll and the EM are
\* always enabled where they stand and always leave their place, so weak
\* fairness of each is the recurrence of not standing there.
FairSpec ==
    /\ Spec
    /\ WF_vars(DropSleep)
    /\ []<>(pc # "drop_poll")
    /\ []<>(pc # "drop_em")

\* a Device as Device::new returns it (every reply of new came in time),
\* with the given cached pen and motor state
DeviceReady(lowered, m1, m2, mode) ==
    /\ pc = "ready"
    /\ connected = TRUE
    /\ is_lowered = lowered
    /\ motor1_enabled = m1
    /\ motor2_enabled = m2
    /\ step_mode = mode
    /\ rx = <<>>
    /\ last = NoCall
    /\ q_m1 = FALSE
    /\ q_m2 = FALSE
    /\ q_ms = <<>>
    /\ built = TRUE
    /\ sp_acked = -1
    /\ em_acked = <<>>

\* ... with the default options and no drawing under way
Ready(lowered, m1, m2, mode) ==
    /\ DeviceReady(lowered, m1, m2, mode)
    /\ options = DefaultOptions
    /\ draw = NoDrawing
    /\ plan = NoPlan
    /\ planning = NoPlanning

CmdInit == Ready(FALSE, TRUE, TRUE, 1)

PenInit == \E lowered \in BOOLEAN : Ready(lowered, TRUE, TRUE, 1)

MotorInit ==
    \E m1 \in BOOLEAN, m2 \in BOOLEAN, mode \in OptionModes :
        Ready(FALSE, m1, m2, mode)

\* the owner sends commands of its own
CmdNext ==
    \/ \E cmd \in RawCommands, a \in Answers : Command(cmd, a)
    \/ Disconnect

CmdSpec == CmdInit /\ [][CmdNext]_vars

\* the owner moves the pen
PenNext ==
    \/ \E value \in PenValues, duration \in PenDurations, portb_pin \in PenPins,
          a \in Answers :
          PenState(value, duration, portb_pin, a)
    \/ \E duration \in PenDurations, a \in Answers : PenToggle(duration, a)
    \/ Disconnect

PenSpec == PenInit /\ [][PenNext]_vars

\* the owner switches and stops the motors
MotorNext ==
    \/ \E mode \in StepModes, a \in Answers : EnableMotors(mode, a)
    \/ \E a \in Answers : DisableMotors(a)
    \/ \E disable_motors \in BOOLEAN, a \in Answers : AbortMotors(disable_motors, a)
    \/ Disconnect

MotorSpec == MotorInit /\ [][MotorNext]_vars

\* the owner calls the typed methods with arguments of its own
ApiInit == \E lowered \in BOOLEAN : Ready(lowered, TRUE, TRUE, 1)

ApiNext ==
    \/ \E value \in PenValues, duration \in PenDurations, portb_pin \in PenPins,
          a \in ApiAnswers :
          PenState(value, duration, portb_pin, a)
    \/ \E name \in Nicknames, a \in ApiAnswers : Nickname(name, a)
    \/ \E port \in PortArgs, pin \in PinArgs, a \in ApiAnswers : ReadPin(port, pin, a)
    \/ \E port \in PortArgs, pin \in PinArgs, direction \in DirectionArgs,
          a \in ApiAnswers :
          PinDirection(port, pin, direction, a)
    \/ \E step_frequency \in Frequencies, position1 \in Positions,
          position2 \in Positions, a \in ApiAnswers :
          Home(step_frequency, position1, position2, a)
    \/ \E duration_ms \in MoveDurations, axis_steps1 \in StepArgs,
          axis_steps2 \in OptionalSteps, a \in ApiAnswers :
          StepperMove(duration_ms, axis_steps1, axis_steps2, a)
    \/ \E step_ms \in MoveDurations, axis_steps_a \in StepArgs,
          axis_steps_b \in StepArgs, a \in ApiAnswers :
          StepperMoveMixed(step_ms, axis_steps_a, axis_steps_b, a)
    \/ Disconnect

ApiSpec == ApiInit /\ [][ApiNext]_vars

\* the owner moves the motors with step counts and positions of its own
StepInit == Ready(FALSE, TRUE, TRUE, 1)

StepNext ==
    \/ \E step_frequency \in {HM_MIN_FREQUENCY}, position1 \in LimitPositions,
          position2 \in LimitPositions, a \in StepAnswers :
          Home(step_frequency, position1, position2, a)
    \/ \E step_frequency \in {HM_MIN_FREQUENCY}, position1 \in LimitPositions,
          position2 \in LimitPositions :
          HomeOverflow(step_frequency, position1, position2)
    \/ \E duration_ms \in {1}, axis_steps1 \in LimitSteps,
          axis_steps2 \in OptionalLimitSteps, a \in StepAnswers :
          StepperMove(duration_ms, axis_steps1, axis_steps2, a)
    \/ \E duration_ms \in {1}, axis_steps1 \in LimitSteps,
          axis_steps2 \in OptionalLimitSteps :
          StepperMoveOverflow(duration_ms, axis_steps1, axis_steps2)
    \/ \E step_ms \in {1}, axis_steps_a \in LimitSteps, axis_steps_b \in LimitSteps,
          a \in StepAnswers :
          StepperMoveMixed(step_ms, axis_steps_a, axis_steps_b, a)
    \/ \E step_ms \in {1}, axis_steps_a \in LimitSteps, axis_steps_b \in LimitSteps :
          StepperMoveMixedOverflow(step_ms, axis_steps_a, axis_steps_b)
    \/ \E rate1 \in Rates, steps1 \in LimitSteps, accel1 \in Accelerations,
          clear \in Clears, a \in StepAnswers :
          LowLevelMove(rate1, steps1, accel1, 0, -SM_MAX, 0, clear, a)
    \/ Teardown

StepSpec == StepInit /\ [][StepNext]_vars

\* Device::pen_down on a device that holds any pen configuration
PenPositions == {30, 59, 60}
PenSpeeds == {1, 7, 150}
PenDelays == {-300, 0, 5, 65535}

PenUpSpeeds == {1, 150}
PenUpDelays == {0, 65535}

PenOptions ==
    {[DefaultOptions EXCEPT !.pen_up_position = up, !.pen_down_position = down,
                            !.pen_down_speed = speed, !.pen_down_delay = delay,
                            !.pen_up_speed = up_speed, !.pen_up_delay = up_delay] :
        up \in PenPositions, down \in PenPositions,
        speed \in PenSpeeds, delay \in PenDelays,
        up_speed \in PenUpSpeeds, up_delay \in PenUpDelays}

\* Device::pen_up, lines 505-510: the delay in ms given to pen_state
pen_up_delay(o) ==
    max(0, div_trunc(1000 * abs(o.pen_up_position - o.pen_down_position),
                     o.pen_up_speed)
           + o.pen_up_delay)

PenUp(a) ==
    /\ pc = "ready"
    /\ \E r \in {pen_state(1, Some(pen_up_delay(options)), None,
                            connected, rx, a.reply, a.late, a.io)} :
           /\ last' = called("pen_up", r)
           /\ rx' = r.rx
           /\ is_lowered' = pen_state_lowered(1, r, is_lowered)
           /\ sp_acked' = IF r.result = "Ok" THEN 1 ELSE sp_acked
    /\ UNCHANGED <<pc, connected, step_mode, motor1_enabled, motor2_enabled,
                   q_m1, q_m2, q_ms, built, em_acked>>
    /\ UNCHANGED axi

PenDown(a) ==
    /\ pc = "ready"
    /\ \E r \in {pen_down(options, connected, rx, a.reply, a.late, a.io)} :
           /\ last' = called("pen_down", r)
           /\ rx' = r.rx
           /\ is_lowered' = pen_state_lowered(0, r, is_lowered)
           /\ sp_acked' = IF r.result = "Ok" THEN 0 ELSE sp_acked
    /\ UNCHANGED <<pc, connected, step_mode, motor1_enabled, motor2_enabled,
                   q_m1, q_m2, q_ms, built, em_acked>>
    /\ UNCHANGED axi

PenDownInit ==
    /\ \E lowered \in BOOLEAN : DeviceReady(lowered, TRUE, TRUE, 1)
    /\ options \in PenOptions
    /\ draw = NoDrawing
    /\ plan = NoPlan
    /\ planning = NoPlanning

PenDownNext ==
    \/ \E a \in ApiAnswers : PenDown(a)
    \/ \E a \in ApiAnswers : PenUp(a)
    \/ Disconnect

PenDownSpec == PenDownInit /\ [][PenDownNext]_vars

-----------------------------------------------------------------------------
(* Axidraw::draw, run_path and run_plan *)

\* A coordinate is a whole number of grid units of 5e-10 units of length,
\* a point a pair of them; the tolerance 1e-9 of Plan::new is two grid units.
GRID_PER_UNIT == 2000000000
PLAN_EPSILON == 2

\* a comparison that takes a distance of exactly eps as different
exceeds_or_equal(p, q, eps) ==
    LET dx == abs(p[1] - q[1])
        dy == abs(p[2] - q[2])
    IN  dx > eps \/ dy > eps \/ dx * dx + dy * dy >= eps * eps

\* a.distance(&b) > eps
exceeds(p, q, eps) ==
    LET dx == abs(p[1] - q[1])
        dy == abs(p[2] - q[2])
    IN  dx > eps \/ dy > eps \/ dx * dx + dy * dy > eps * eps

\* Plan::dedup_points, lines 197-214
RECURSIVE dedup_from(_, _, _)
dedup_from(deduped, rest, epsilon) ==
    IF rest = <<>> THEN deduped
    ELSE dedup_from(IF exceeds(deduped[Len(deduped)], Head(rest), epsilon)
                    THEN Append(deduped, Head(rest)) ELSE deduped,
                    Tail(rest), epsilon)

dedup_points(points, epsilon) ==
    IF points = <<>> THEN <<>> ELSE dedup_from(<<points[1]>>, Tail(points), epsilon)

\* f64::round of the quotient n / d, d > 0: to the nearest whole number,
\* a half away from zero
round_ratio(n, d) ==
    LET q == abs(n) \div d
        r == abs(n) % d
        m == IF r >= d - r THEN q + 1 ELSE q
    IN  IF n < 0 THEN -m ELSE m

\* run_plan, lines 280-281: (delta * steps_per_unit).round() as i32
to_steps(delta, steps_per_unit) == round_ratio(delta * steps_per_unit, GRID_PER_UNIT)

\* The positions plan.instant(t) gives at t = 0, 0.1 s, 0.2 s, ... up to the
\* end of the plan (instant clamps t to total_time): one XM per consecutive
\* pair.  A path that dedups to one point has total_time 0 (plan.rs, lines
\* 41-51) and no slice; for any other path the velocity profile decides the
\* samples, and the model takes each of: one slice, a first slice that does
\* not move, one slice per point.
Samplings(points) ==
    LET d == dedup_points(points, PLAN_EPSILON)
    IN  IF Len(d) = 1 THEN {<<d[1]>>}
        ELSE {<<d[1], d[Len(d)]>>, <<d[1], d[1], d[Len(d)]>>, d}

NewPlan(samples) == [samples |-> samples, k |-> 0, sum |-> <<0, 0>>]

slices(pl) == Len(pl.samples) - 1

\* run_plan, lines 268-290: the XM of the slice the plan has reached
slice_steps(o, pl) ==
    <<to_steps(pl.samples[pl.k + 2][1] - pl.samples[pl.k + 1][1], o.steps_per_unit),
      to_steps(pl.samples[pl.k + 2][2] - pl.samples[pl.k + 1][2], o.steps_per_unit)>>

\* the ? operator after a device call: the error is returned at once
after_command_unchecked(next, r) == next

after_command(next, r) == IF r.result = "Ok" THEN next ELSE "failed"

\* draw, line 197: last_position.distance(&next_point) > std::f64::EPSILON;
\* 2.2e-16 is below the grid unit, so any two different points exceed it
lift_never(last_position, next_point) == FALSE

lift_needed(last_position, next_point) == last_position # next_point

\* draw, lines 191-203: after a polyline was streamed, with the next one
lift_or_not(last_position, next_path) ==
    IF next_path = <<>> THEN "panicked"
    ELSE IF lift_needed(last_position, next_path[1]) THEN "lift"
    ELSE "polyline"

\* draw, lines 206-220: what follows the loop over the polylines
after_polylines_no_raise == "home"

after_polylines == "final_pen_up"

clamp(x, lo, hi) == IF x < lo THEN lo ELSE IF x > hi THEN hi ELSE x

\* draw, lines 211-214; "as u32" turns a negative number into 0
step_frequency(o) ==
    clamp(max(0, o.max_velocity * o.steps_per_unit), HM_MIN_FREQUENCY, HM_MAX_FREQUENCY)

\* draw, line 152: zero_position (CS)
DrawZeroPosition(a) ==
    /\ pc = "ready" /\ draw.stage = "zero_position"
    /\ \E r \in {command(<<"C", "S">>, connected, rx, a.reply, a.late, a.io)} :
           /\ last' = called("zero_position", r)
           /\ rx' = r.rx
           /\ draw' = [draw EXCEPT !.stage = after_command("pen_up", r)]
    /\ UNCHANGED <<pc, connected, is_lowered, step_mode, motor1_enabled,
                   motor2_enabled, q_m1, q_m2, q_ms, built, sp_acked, em_acked,
                   options, plan, planning>>

\* draw, lines 153, 199 and 217: pen_up before the first polyline, between
\* two polylines and after the last
DrawPenUp(a) ==
    /\ pc = "ready" /\ draw.stage \in {"pen_up", "lift", "final_pen_up"}
    /\ \E r \in {pen_up(connected, rx, a.reply, a.late, a.io)} :
           /\ last' = called("pen_up", r)
           /\ rx' = r.rx
           /\ is_lowered' = pen_state_lowered(1, r, is_lowered)
           /\ sp_acked' = IF r.result = "Ok" THEN 1 ELSE sp_acked
           /\ draw' = [draw EXCEPT !.stage =
                         after_command(IF draw.stage = "final_pen_up"
                                       THEN "home" ELSE "polyline", r)]
    /\ UNCHANGED <<pc, connected, step_mode, motor1_enabled, motor2_enabled,
                   q_m1, q_m2, q_ms, built, em_acked, options, plan, planning>>

\* draw, lines 159-169: the head of the loop; an empty polyline is passed
\* over, otherwise the travel to its first point is planned
DrawPolyline ==
    /\ pc = "ready" /\ draw.stage = "polyline"
    /\ IF draw.i > Len(draw.paths)
       THEN /\ draw' = [draw EXCEPT !.stage = after_polylines]
            /\ plan' = plan
       ELSE IF draw.paths[draw.i] = <<>>
       THEN /\ draw' = [draw EXCEPT !.i = draw.i + 1]
            /\ plan' = plan
       ELSE /\ draw' = [draw EXCEPT !.stage = "travel"]
            /\ \E s \in Samplings(<<draw.last_position, draw.paths[draw.i][1]>>) :
                   plan' = NewPlan(s)
    /\ UNCHANGED <<pc, connected, is_lowered, step_mode, motor1_enabled,
                   motor2_enabled, rx, last, q_m1, q_m2, q_ms, built, sp_acked,
                   em_acked, options, planning>>

\* run_plan, lines 268-290: one turn of the loop, one XM
RunPlan(a) ==
    /\ pc = "ready" /\ draw.stage \in {"travel", "stream", "run_plan"}
    /\ plan.k < slices(plan)
    /\ \E st \in {slice_steps(options, plan)} :
       \E r \in {stepper_move_mixed(TIMESLICE_MS, st[1], st[2], connected, rx,
                                    a.reply, a.late, a.io)} :
           /\ last' = called("stepper_move_mixed", r)
           /\ rx' = r.rx
           /\ draw' = [draw EXCEPT !.stage = after_command(draw.stage, r)]
           /\ plan' = IF r.result = "Ok"
                      THEN [plan EXCEPT !.k = plan.k + 1,
                                        !.sum = <<plan.sum[1] + st[1], plan.sum[2] + st[2]>>]
                      ELSE plan
    /\ UNCHANGED <<pc, connected, is_lowered, step_mode, motor1_enabled,
                   motor2_enabled, q_m1, q_m2, q_ms, built, sp_acked, em_acked,
                   options, planning>>

\* run_plan returns Ok(()): t has reached total_time.  After the travel the
\* pen goes down (line 172); after the polyline its last point becomes the
\* position and the next polyline is looked at (lines 188-203)
PlanDone ==
    /\ pc = "ready" /\ draw.stage \in {"travel", "stream", "run_plan"}
    /\ plan.k = slices(plan)
    /\ draw' =
         IF draw.stage = "run_plan" THEN [draw EXCEPT !.stage = "returned"]
         ELSE IF draw.stage = "travel" THEN [draw EXCEPT !.stage = "pen_down"]
         ELSE LET path == draw.paths[draw.i]
                  last_point == path[Len(path)]
              IN  [draw EXCEPT
                     !.last_position = last_point,
                     !.i = draw.i + 1,
                     !.stage = IF draw.i + 1 <= Len(draw.paths)
                               THEN lift_or_not(last_point, draw.paths[draw.i + 1])
                               ELSE "polyline"]
    /\ plan' = IF draw.stage = "run_plan" THEN plan ELSE NoPlan
    /\ UNCHANGED <<pc, connected, is_lowered, step_mode, motor1_enabled,
                   motor2_enabled, rx, last, q_m1, q_m2, q_ms, built, sp_acked,
                   em_acked, options, planning>>

\* draw, lines 172-185: pen_down, then the plan of the polyline
DrawPenDown(a) ==
    /\ pc = "ready" /\ draw.stage = "pen_down"
    /\ \E r \in {pen_down(options, connected, rx, a.reply, a.late, a.io)} :
           /\ last' = called("pen_down", r)
           /\ rx' = r.rx
           /\ is_lowered' = pen_state_lowered(0, r, is_lowered)
           /\ sp_acked' = IF r.result = "Ok" THEN 0 ELSE sp_acked
           /\ draw' = [draw EXCEPT !.stage = after_command("stream", r)]
           /\ IF r.result = "Ok"
              THEN \E s \in Samplings(draw.paths[draw.i]) : plan' = NewPlan(s)
              ELSE plan' = plan
    /\ UNCHANGED <<pc, connected, step_mode, motor1_enabled, motor2_enabled,
                   q_m1, q_m2, q_ms, built, em_acked, options, planning>>

\* draw, line 220: home(step_frequency, None, None), then Ok(())
DrawHome(a) ==
    /\ pc = "ready" /\ draw.stage = "home"
    /\ \E r \in {home(step_frequency(options), None, None, connected, rx,
                      a.reply, a.late, a.io)} :
           /\ last' = called("home", r)
           /\ rx' = r.rx
           /\ draw' = [draw EXCEPT !.stage = after_command("done", r)]
    /\ UNCHANGED <<pc, connected, is_lowered, step_mode, motor1_enabled,
                   motor2_enabled, q_m1, q_m2, q_ms, built, sp_acked, em_acked,
                   options, plan, planning>>

\* draw has returned or panicked: the owner lets go of the Axidraw and its
\* Device is dropped
DrawReturn ==
    /\ pc = "ready" /\ draw.stage \in {"done", "failed", "panicked", "returned"}
    /\ pc' = "drop_poll"
    /\ UNCHANGED <<connected, is_lowered, step_mode, motor1_enabled,
                   motor2_enabled, rx, last, q_m1, q_m2, q_ms, built,
                   sp_acked, em_acked>>
    /\ UNCHANGED axi

\* the drawings: polylines far apart, sharing an endpoint, 5e-10 apart,
\* of one point, empty ones in front, in the middle and at the end
PtO == <<0, 0>>
PtO1 == <<1, 0>>
PtA == <<25000000, 0>>
PtB == <<25000000, 12500000>>
PtB1 == <<25000001, 12500000>>
PtC == <<0, 12500000>>

Drawings ==
    {<<>>,
     <<<<PtA, PtB>>>>,
     <<<<PtA, PtB>>, <<PtB, PtC>>>>,
     <<<<PtA, PtB>>, <<PtB1, PtC>>>>,
     <<<<PtA, PtB, PtC>>, <<PtA, PtB>>>>,
     <<<<>>, <<PtO1, PtC>>>>,
     <<<<PtA, PtB>>, <<>>>>,
     <<<<PtA>>, <<>>, <<PtC, PtO>>>>}

Velocities == {0, MAX_VELOCITY, 1000}

DrawAnswers == {a \in ApiAnswers : a.reply # ReplyPinHigh}

DrawInit ==
    /\ DeviceReady(TRUE, TRUE, TRUE, 1)
    /\ options \in {[DefaultOptions EXCEPT !.max_velocity = v] : v \in Velocities}
    /\ draw \in {[paths |-> d, i |-> 1, stage |-> "zero_position",
                  last_position |-> PtO] : d \in Drawings}
    /\ plan = NoPlan
    /\ planning = NoPlanning

DrawNext ==
    \/ \E a \in DrawAnswers : DrawZeroPosition(a)
    \/ \E a \in DrawAnswers : DrawPenUp(a)
    \/ DrawPolyline
    \/ \E a \in DrawAnswers : RunPlan(a)
    \/ PlanDone
    \/ \E a \in DrawAnswers : DrawPenDown(a)
    \/ \E a \in DrawAnswers : DrawHome(a)
    \/ DrawReturn
    \/ Teardown

DrawSpec == DrawInit /\ [][DrawNext]_vars

\* run_plan on any plan: positions a fraction of a step apart, at most four
\* samples
PlanPoints ==
    {<<0, 0>>, <<10000000, 0>>, <<12500000, 10000000>>, <<20000000, -12500000>>,
     <<25000000, 12500000>>}

MaxSamples == 4

PlanSamples == UNION {[1..n -> PlanPoints] : n \in 1..MaxSamples}

PlanInit ==
    /\ DeviceReady(FALSE, TRUE, TRUE, 1)
    /\ options = DefaultOptions
    /\ draw = [NoDrawing EXCEPT !.stage = "run_plan"]
    /\ plan \in {NewPlan(s) : s \in PlanSamples}
    /\ planning = NoPlanning

PlanNext ==
    \/ \E a \in DrawAnswers : RunPlan(a)
    \/ PlanDone

PlanSpec == PlanInit /\ [][PlanNext]_vars

-----------------------------------------------------------------------------
(* The motion planner: Plan::new *)

\* The planner's f64 values are kept in fixed point: lengths and coordinates
\* in thousandths of a unit (2,000,000 grid units), velocities in
\* thousandths of a unit per second, times in microseconds, squared
\* velocities in millionths.  The tolerance 1e-9 is below this resolution:
\* "x > EPSILON" reads "x > 0", "x < -EPSILON" reads "x < 0".  A value is
\* such a number or one of the two f64 values Inf and NaN.
MILLI == 2000000

\* axidraw.rs, line 22: 0.001 units
CORNER_FACTOR == 1

Inf == 2147483647
NaN == -2147483647

finite(x) == x \notin {Inf, NaN}

\* x / y for x >= 0, y >= 0, times the scale k of the result
fdiv(x, k, y) ==
    IF y = 0 THEN (IF x = 0 THEN NaN ELSE Inf) ELSE (x * k) \div y

\* x + y
fadd(x, y) ==
    IF x = NaN \/ y = NaN THEN NaN
    ELSE IF x = Inf \/ y = Inf THEN Inf
    ELSE x + y

\* x * y divided by the scale k, for a finite x
fmul(x, y, k) ==
    IF y = NaN THEN NaN
    ELSE IF y = Inf THEN (IF x = 0 THEN NaN ELSE Inf)
    ELSE (x * y) \div k

\* x > y, x < y: false when either is NaN
fgt(x, y) ==
    IF x = NaN \/ y = NaN THEN FALSE
    ELSE IF y = Inf THEN FALSE
    ELSE IF x = Inf THEN TRUE
    ELSE x > y

flt(x, y) == fgt(y, x)

\* f64::sqrt of a whole number, rounded down to a whole number
RECURSIVE sqrt_between(_, _, _)
sqrt_between(n, lo, hi) ==
    IF lo >= hi THEN lo
    ELSE LET mid == (lo + hi + 1) \div 2
         IN  IF mid * mid <= n THEN sqrt_between(n, mid, hi)
             ELSE sqrt_between(n, lo, mid - 1)

sqrt(n) == IF n <= 0 THEN 0 ELSE sqrt_between(n, 0, 46340)

\* a point in thousandths of a unit
to_milli(p) == <<round_ratio(p[1], MILLI), round_ratio(p[2], MILLI)>>

\* Point::distance
distance(p, q) == sqrt((p[1] - q[1]) * (p[1] - q[1]) + (p[2] - q[2]) * (p[2] - q[2]))

\* Block::new, block.rs lines 21-37
Block(acceleration, duration, initial_velocity, p1, p2) ==
    [acceleration |-> acceleration, duration |-> duration,
     initial_velocity |-> initial_velocity, distance |-> distance(p1, p2),
     p1 |-> p1, p2 |-> p2]

\* Plan::new, lines 41-51: the plan of a path that dedups to one point
single_point_plan(p) ==
    [blocks |-> <<Block(0, 0, 0, p, p)>>, total_time |-> 0, total_distance |-> 0,
     times |-> <<0>>, distances |-> <<0>>]

\* Plan::new is entered with the points of a path
StartPlanning(points, acceleration, max_velocity, corner_factor) ==
    [stage |-> "new", points |-> points, acceleration |-> acceleration,
     max_velocity |-> max_velocity, corner_factor |-> corner_factor]

\* Plan::new, lines 38-51 and 76: the points are deduplicated; one point
\* gives the plan at once, no point at all makes last().unwrap() panic
PlanDedup ==
    /\ planning.stage = "new"
    /\ \E d \in {dedup_points(planning.points, PLAN_EPSILON)} :
           planning' =
             IF Len(d) = 1
             THEN [planning EXCEPT !.stage = "returned"] @@
                  [deduped |-> d, result |-> single_point_plan(to_milli(d[1]))]
             ELSE [planning EXCEPT !.stage = IF d = <<>> THEN "panicked" ELSE "segments"]
                  @@ [deduped |-> d]
    /\ UNCHANGED <<pc, connected, is_lowered, step_mode, motor1_enabled,
                   motor2_enabled, rx, last, q_m1, q_m2, q_ms, built, sp_acked,
                   em_acked, options, draw, plan>>

\* Point::normalize (zero maps to zero), in thousandths
normalize(v) ==
    LET n == distance(v, <<0, 0>>)
    IN  IF n = 0 THEN <<0, 0>>
        ELSE <<round_ratio(v[1] * 1000, n), round_ratio(v[2] * 1000, n)>>

\* Point::lerps: the point at arc length s from p towards q
lerps(p, q, s) ==
    LET u == normalize(<<q[1] - p[1], q[2] - p[2]>>)
    IN  <<p[1] + round_ratio(u[1] * s, 1000), p[2] + round_ratio(u[2] * s, 1000)>>

\* Segment::new, segment.rs lines 31-44
\* a segment that is entered at 4 units/s
Segment_entered(p1, p2) ==
    [p1 |-> p1, p2 |-> p2, vector |-> normalize(<<p2[1] - p1[1], p2[2] - p1[2]>>),
     length |-> distance(p1, p2), max_entry_velocity |-> 0, entry_velocity |-> 4000,
     blocks |-> <<>>]

Segment(p1, p2) ==
    [p1 |-> p1, p2 |-> p2, vector |-> normalize(<<p2[1] - p1[1], p2[2] - p1[2]>>),
     length |-> distance(p1, p2), max_entry_velocity |-> 0, entry_velocity |-> 0,
     blocks |-> <<>>]

\* Point::dot of two unit vectors in thousandths: each product is rounded
\* to the thousandth, as each f64 product is rounded to its last place
dot(u, v) == round_ratio(u[1] * v[1], 1000) + round_ratio(u[2] * v[2], 1000)

\* f64::sqrt to the nearest whole number; NaN below zero
fsqrt(x) ==
    IF x = NaN \/ x < 0 THEN NaN
    ELSE LET r == sqrt(x)
         IN  IF x - r * r > r THEN r + 1 ELSE r

\* corner_velocity that forgets the ceiling
corner_velocity_unbounded(s1, s2, vmax, a, cf) ==
    LET cosine == -dot(s1.vector, s2.vector)
        sine == fsqrt((1000 - cosine) * 500)
    IN  IF cosine = 1000 THEN 0
        ELSE IF sine = NaN \/ sine > 1000 THEN vmax
        ELSE IF sine = 1000 THEN vmax
        ELSE sqrt((a * cf * 1000 * sine) \div (1000 - sine))

\* corner_velocity, util.rs lines 16-37; cosine and sine in thousandths.
\* std::f64::EPSILON is the spacing of the numbers at 1.0, here one
\* thousandth: |x - 1.0| < EPSILON reads x = 1000.  The square root of a
\* negative number is NaN, NaN fails the second test, and NaN.min(vmax) is
\* vmax.
corner_velocity(s1, s2, vmax, a, cf) ==
    LET cosine == -dot(s1.vector, s2.vector)
        sine == fsqrt((1000 - cosine) * 500)
        v == sqrt((a * cf * 1000 * sine) \div (1000 - sine))
    IN  IF cosine = 1000 THEN 0
        ELSE IF sine = NaN \/ sine > 1000 THEN vmax
        ELSE IF sine = 1000 THEN vmax
        ELSE IF v < vmax THEN v ELSE vmax

\* Triangle::triangular_profile, triangle.rs lines 31-56; p2 is taken at
\* the arc length s1 / s
triangular_profile(s, vi, vf, a, p1, p3) ==
    LET s1 == (2 * a * s * 1000 + vf * vf - vi * vi) \div (4 * a * 1000)
        vmax == sqrt(vi * vi + 2 * a * s1 * 1000)
    IN  [s1 |-> s1, s2 |-> s - s1, vmax |-> vmax,
         t1 |-> ((vmax - vi) * 1000) \div a,
         t2 |-> ((vmax - vf) * 1000) \div a,
         p1 |-> p1,
         p2 |-> IF s1 < 0 THEN p1 ELSE lerps(p1, p3, (s1 * 1000) \div s),
         p3 |-> p3]

\* Trapezoid::trapezoidal_profile
trapezoidal_profile(s, vi, vmax, vf, a, p1, p4) ==
    LET s1 == (vmax * vmax - vi * vi) \div (2 * a * 1000)
        s3 == (vmax * vmax - vf * vf) \div (2 * a * 1000)
    IN  [t1 |-> ((vmax - vi) * 1000) \div a,
         t2 |-> fdiv(s - s1 - s3, 1000000, vmax),
         t3 |-> ((vmax - vf) * 1000) \div a,
         p1 |-> p1, p2 |-> lerps(p1, p4, s1), p3 |-> lerps(p1, p4, s - s3), p4 |-> p4]

\* Plan::new, lines 54-77: the segments, the velocity allowed at each
\* corner, and the damping segment at the last point
segments_of(d, max_velocity, a, cf) ==
    LET seg == [n \in 1..(Len(d) - 1) |-> Segment(d[n], d[n + 1])]
    IN  [n \in 1..Len(d) |->
           IF n = Len(d) THEN Segment(d[Len(d)], d[Len(d)])
           ELSE IF n = 1 THEN seg[1]
           ELSE [seg[n] EXCEPT !.max_entry_velocity =
                                 corner_velocity(seg[n - 1], seg[n], max_velocity, a, cf)]]

PlanSegments ==
    /\ planning.stage = "segments"
    /\ planning' = [planning EXCEPT !.stage = "look_ahead"] @@
                   [i |-> 0,
                    segments |-> segments_of([n \in 1..Len(planning.deduped) |->
                                                 to_milli(planning.deduped[n])],
                                             planning.max_velocity, planning.acceleration,
                                             planning.corner_factor)]
    /\ UNCHANGED <<pc, connected, is_lowered, step_mode, motor1_enabled,
                   motor2_enabled, rx, last, q_m1, q_m2, q_ms, built, sp_acked,
                   em_acked, options, draw, plan>>

\* Plan::new, lines 103-104
backtrack_velocity(vi, vexit, a, s) == sqrt(vexit * vexit + 2 * a * s * 1000)

\* Plan::new, lines 81-155: one turn of the look-ahead loop on segment i
look_ahead(segments, i, a) ==
    LET segment == segments[i + 1]
        next_segment == segments[i + 2]
        s == segment.length
        vi == segment.entry_velocity
        vmax_segment == segment.max_entry_velocity
        vexit == IF next_segment.max_entry_velocity < vmax_segment
                 THEN next_segment.max_entry_velocity ELSE vmax_segment
        p1 == segment.p1
        p2 == segment.p2
        m == triangular_profile(s, vi, vexit, a, p1, p2)
        vf == sqrt(vi * vi + 2 * a * s * 1000)
        z == trapezoidal_profile(s, vi, vmax_segment, vexit, a, p1, p2)
    IN  IF m.s1 < 0
        THEN [segments |-> [segments EXCEPT ![i + 1].max_entry_velocity =
                                               backtrack_velocity(vi, vexit, a, s)],
              i |-> IF i > 0 THEN i - 1 ELSE i,
              break |-> i = 0]
        ELSE IF m.s2 <= 0
        THEN [segments |-> [segments EXCEPT
                              ![i + 1].blocks = <<Block(a, ((vf - vi) * 1000) \div a, vi, p1, p2)>>,
                              ![i + 2].entry_velocity = vf],
              i |-> i + 1, break |-> FALSE]
        ELSE IF m.vmax > vmax_segment
        THEN [segments |-> [segments EXCEPT
                              ![i + 1].blocks = <<Block(a, z.t1, vi, z.p1, z.p2),
                                                  Block(0, z.t2, vmax_segment, z.p2, z.p3),
                                                  Block(-a, z.t3, vmax_segment, z.p3, z.p4)>>,
                              ![i + 2].entry_velocity = vexit],
              i |-> i + 1, break |-> FALSE]
        ELSE [segments |-> [segments EXCEPT
                              ![i + 1].blocks = <<Block(a, m.t1, vi, m.p1, m.p2),
                                                  Block(-a, m.t2, m.vmax, m.p2, m.p3)>>,
                              ![i + 2].entry_velocity = vexit],
              i |-> i + 1, break |-> FALSE]

PlanLookAhead ==
    /\ planning.stage = "look_ahead"
    /\ planning.i < Len(planning.segments) - 1
    /\ \E r \in {look_ahead(planning.segments, planning.i, planning.acceleration)} :
           planning' = [planning EXCEPT !.segments = r.segments, !.i = r.i,
                                        !.stage = IF r.break THEN "finish" ELSE "look_ahead"]
    /\ UNCHANGED <<pc, connected, is_lowered, step_mode, motor1_enabled,
                   motor2_enabled, rx, last, q_m1, q_m2, q_ms, built, sp_acked,
                   em_acked, options, draw, plan>>

\* Plan::new, lines 158-165: the blocks of all segments that last longer
\* than EPSILON
RECURSIVE all_blocks(_, _, _)
all_blocks(segments, n, k) ==
    IF n > Len(segments) THEN <<>>
    ELSE IF k > Len(segments[n].blocks) THEN all_blocks(segments, n + 1, 1)
    ELSE (IF fgt(segments[n].blocks[k].duration, 0) THEN <<segments[n].blocks[k]>> ELSE <<>>)
         \o all_blocks(segments, n, k + 1)

\* Plan::new, lines 168-178: the time and the distance at which the block
\* after the first n blocks starts
RECURSIVE time_before(_, _)
time_before(blocks, n) ==
    IF n = 0 THEN 0 ELSE fadd(time_before(blocks, n - 1), blocks[n].duration)

RECURSIVE distance_before(_, _)
distance_before(blocks, n) ==
    IF n = 0 THEN 0 ELSE distance_before(blocks, n - 1) + blocks[n].distance

\* Plan::new, lines 158-186
plan_of(segments) ==
    LET blocks == all_blocks(segments, 1, 1)
    IN  [blocks |-> blocks,
         total_time |-> time_before(blocks, Len(blocks)),
         total_distance |-> distance_before(blocks, Len(blocks)),
         times |-> [n \in 1..Len(blocks) |-> time_before(blocks, n - 1)],
         distances |-> [n \in 1..Len(blocks) |-> distance_before(blocks, n - 1)]]

PlanFinish ==
    /\ \/ planning.stage = "finish"
       \/ planning.stage = "look_ahead" /\ planning.i >= Len(planning.segments) - 1
    /\ planning' = [planning EXCEPT !.stage = "returned"] @@
                   [result |-> plan_of(planning.segments)]
    /\ UNCHANGED <<pc, connected, is_lowered, step_mode, motor1_enabled,
                   motor2_enabled, rx, last, q_m1, q_m2, q_ms, built, sp_acked,
                   em_acked, options, draw, plan>>

\* Block::instant, block.rs line 57: the velocity t microseconds into the
\* block
velocity_at(b, t) == fadd(b.initial_velocity, fmul(b.acceleration, t, 1000))

\* Block::instant, block.rs line 58: the distance covered t microseconds
\* into the block, with t taken in milliseconds
displacement_at(b, t) ==
    LET ms == IF finite(t) THEN t \div 1000 ELSE t
        ms2 == IF finite(t) THEN ms * ms ELSE t
    IN  fadd(fmul(b.initial_velocity, ms, 1000), fmul(b.acceleration, ms2, 2000))

\* the length of a polyline
RECURSIVE polyline_length(_, _)
polyline_length(pts, n) ==
    IF n <= 1 THEN 0 ELSE polyline_length(pts, n - 1) + distance(pts[n - 1], pts[n])

\* Plan::new on paths with straight, right-angle and reversing corners,
\* near-duplicate points, one point and no point; the coordinates are in
\* quarters of a unit
Q == 250 * MILLI

Paths ==
    {<<>>,
     <<<<0, 0>>>>,
     <<<<Q, Q>>, <<Q + 1, Q>>>>,
     <<<<0, 0>>, <<4 * Q, 0>>>>,
     <<<<0, 0>>, <<Q, 0>>>>,
     <<<<0, 0>>, <<Q, 0>>, <<2 * Q, 0>>>>,
     <<<<0, 0>>, <<Q, 0>>, <<Q, 1>>, <<3 * Q, 0>>>>,
     <<<<0, 0>>, <<2 * Q, 0>>, <<2 * Q, 4 * Q>>>>,
     <<<<0, 0>>, <<2 * Q, 0>>, <<0, 0>>>>,
     <<<<0, 0>>, <<Q, 0>>, <<3 * Q, 0>>, <<4 * Q, 0>>>>,
     <<<<0, 0>>, <<Q, 0>>, <<Q, 4 * Q>>, <<2 * Q, 4 * Q>>>>,
     <<<<0, 0>>, <<Q, 0>>, <<Q, 2 * Q>>, <<Q, 3 * Q>>, <<Q, 4 * Q>>>>,
     <<<<0, 0>>, <<Q, 0>>, <<4 * Q, 0>>, <<4 * Q, Q>>, <<0, Q>>>>}

Ceilings == {1000, MAX_VELOCITY * 1000}

CornerFactors == {0, CORNER_FACTOR, 100}

PlannerInit ==
    /\ DeviceReady(FALSE, TRUE, TRUE, 1)
    /\ options = DefaultOptions
    /\ draw = NoDrawing
    /\ plan = NoPlan
    /\ planning \in {StartPlanning(pts, ACCELERATION, v, cf) :
                        pts \in Paths, v \in Ceilings, cf \in CornerFactors}

PlannerNext ==
    \/ PlanDedup
    \/ PlanSegments
    \/ PlanLookAhead
    \/ PlanFinish

PlannerSpec == PlannerInit /\ [][PlannerNext]_vars

\* x - y for y <= x
fsub(x, y) ==
    IF x = NaN \/ y = NaN THEN NaN
    ELSE IF x = Inf THEN (IF y = Inf THEN NaN ELSE Inf)
    ELSE x - y

\* f64::clamp: NaN stays NaN
fclamp(x, lo, hi) == IF x = NaN THEN NaN ELSE IF flt(x, lo) THEN lo ELSE IF fgt(x, hi) THEN hi ELSE x

\* Block::instant, block.rs lines 55-63: the position t microseconds into
\* the block
block_position(b, t) ==
    LET clamped_s == fclamp(displacement_at(b, fclamp(t, 0, b.duration)), 0, b.distance)
    IN  IF finite(clamped_s) THEN lerps(b.p1, b.p2, clamped_s) ELSE <<NaN, NaN>>

\* Block::instant, block.rs lines 55-63: the Instant t microseconds into
\* the block, with the offsets dt and ds added
block_instant(b, t, dt, ds) ==
    LET clamped_t == fclamp(t, 0, b.duration)
        clamped_s == fclamp(displacement_at(b, clamped_t), 0, b.distance)
    IN  [t |-> fadd(clamped_t, dt), s |-> fadd(clamped_s, ds),
         v |-> velocity_at(b, clamped_t), a |-> b.acceleration,
         position |-> block_position(b, t)]

\* the closure of Plan::instant, plan.rs lines 228-234, answers Greater
before_or_at(clamped_t, x) == ~fgt(clamped_t, x)

before(clamped_t, x) == flt(clamped_t, x)

\* slice::binary_search_by over times[left..right] with that closure, which
\* never answers Equal: the search ends with Err(left)
RECURSIVE binary_search_by(_, _, _, _)
binary_search_by(times, clamped_t, left, right) ==
    IF left >= right THEN left
    ELSE LET mid == left + (right - left) \div 2
         IN  IF before(clamped_t, times[mid + 1])
             THEN binary_search_by(times, clamped_t, left, mid)
             ELSE binary_search_by(times, clamped_t, mid + 1, right)

\* Plan::instant, plan.rs lines 225-240: the index of the block
block_index_at(pl, t) ==
    LET index == binary_search_by(pl.times, fclamp(t, 0, pl.total_time), 0, Len(pl.times))
    IN  IF index = 0 THEN 0 ELSE index - 1

\* Plan::instant, plan.rs lines 223-249: the position of the Instant
instant(pl, t) ==
    LET clamped_t == fclamp(t, 0, pl.total_time)
        block_index == block_index_at(pl, t)
    IN  IF block_index >= Len(pl.blocks) THEN None
        ELSE Some(block_position(pl.blocks[block_index + 1],
                                 fsub(clamped_t, pl.times[block_index + 1])))

\* Plan::instant, plan.rs lines 223-249: the whole Instant
plan_instant(pl, t) ==
    LET clamped_t == fclamp(t, 0, pl.total_time)
        block_index == block_index_at(pl, t)
    IN  IF block_index >= Len(pl.blocks) THEN None
        ELSE Some(block_instant(pl.blocks[block_index + 1],
                                fsub(clamped_t, pl.times[block_index + 1]),
                                pl.times[block_index + 1],
                                pl.distances[block_index + 1]))

\* run_plan, lines 280-281: (delta * steps_per_unit).round() as i32, of a
\* delta in thousandths of a unit; NaN as i32 is 0
steps_of(from, to, steps_per_unit) ==
    IF finite(from) /\ finite(to) THEN round_ratio((to - from) * steps_per_unit, 1000) ELSE 0

\* run_plan, line 266: the time slice in microseconds
step_us == TIMESLICE_MS * 1000

\* t += step_s adds nothing to a large enough t; here that is the t after
\* MaxSlices slices
MaxSlices == 3

later(t) == IF t >= MaxSlices * step_us THEN t ELSE t + step_us

\* run_plan on the plan Plan::new has returned; turn is the number of XM
\* commands sent, modulo 2
NewRun == [t |-> 0, turn |-> 0, sum |-> <<0, 0>>]

\* run_plan, lines 268-290: one turn of the loop
RunSlice(a) ==
    /\ pc = "ready" /\ draw.stage = "run_plan"
    /\ planning.stage = "returned"
    /\ flt(plan.t, planning.result.total_time)
    /\ \E i1 \in {instant(planning.result, plan.t)} :
       \E i2 \in {instant(planning.result, plan.t + step_us)} :
          IF i1 = None \/ i2 = None
          THEN /\ draw' = [draw EXCEPT !.stage = "failed"]
               /\ UNCHANGED <<last, rx, plan>>
          ELSE \E sx \in {steps_of(i1[1][1], i2[1][1], options.steps_per_unit)} :
               \E sy \in {steps_of(i1[1][2], i2[1][2], options.steps_per_unit)} :
               \E r \in {stepper_move_mixed(TIMESLICE_MS, sx, sy, connected, rx,
                                            a.reply, a.late, a.io)} :
                   /\ last' = called("stepper_move_mixed", r)
                   /\ rx' = r.rx
                   /\ draw' = [draw EXCEPT !.stage = after_command(draw.stage, r)]
                   /\ plan' = IF r.result = "Ok"
                              THEN [t |-> later(plan.t), turn |-> 1 - plan.turn,
                                    sum |-> <<plan.sum[1] + sx, plan.sum[2] + sy>>]
                              ELSE plan
    /\ UNCHANGED <<pc, connected, is_lowered, step_mode, motor1_enabled,
                   motor2_enabled, q_m1, q_m2, q_ms, built, sp_acked, em_acked,
                   options, planning>>

\* run_plan, lines 268 and 293: t has reached total_time
RunDone ==
    /\ pc = "ready" /\ draw.stage = "run_plan"
    /\ planning.stage = "returned"
    /\ ~flt(plan.t, planning.result.total_time)
    /\ draw' = [draw EXCEPT !.stage = "returned"]
    /\ UNCHANGED <<pc, connected, is_lowered, step_mode, motor1_enabled,
                   motor2_enabled, rx, last, q_m1, q_m2, q_ms, built, sp_acked,
                   em_acked, options, plan, planning>>

\* run_path, axidraw.rs lines 333-347: Plan::new, then run_plan on its plan
RunInit ==
    /\ DeviceReady(FALSE, TRUE, TRUE, 1)
    /\ options = DefaultOptions
    /\ draw = [NoDrawing EXCEPT !.stage = "run_plan"]
    /\ plan = NewRun
    /\ planning \in {StartPlanning(pts, ACCELERATION, v, cf) :
                        pts \in Paths, v \in Ceilings, cf \in CornerFactors}

RunNext ==
    \/ PlanDedup
    \/ PlanSegments
    \/ PlanLookAhead
    \/ PlanFinish
    \/ \E a \in DrawAnswers : RunSlice(a)
    \/ RunDone

\* The thread that called run_path keeps running.  Every step of Plan::new
\* and every turn of run_plan's loop is enabled where it stands and leaves
\* its place (the stage, the segment index, the parity of the commands
\* sent), so weak fairness of each is the recurrence of not standing there.
RunSpec ==
    /\ RunInit /\ [][RunNext]_vars
    /\ WF_vars(RunDone)
    /\ []<>(planning.stage \notin {"new", "segments", "finish"})
    /\ \A k \in {Len(pts) : pts \in Paths} :
           []<>~(planning.stage = "look_ahead" /\ planning.i = k)
    /\ \A tn \in {0, 1} :
           []<>~(planning.stage = "returned" /\ draw.stage = "run_plan" /\ plan.turn = tn)

\* corner_velocity at the corner between two segments of any of these
\* displacements (thousandths of a unit): along the axes, along 3:4, 2:7,
\* 1:2 and 1:1, and back
Directions ==
    {<<1000, 0>>, <<0, 1000>>, <<-1000, 0>>, <<3000, 4000>>, <<-3000, -4000>>,
     <<2000, 7000>>, <<-2000, -7000>>, <<1000, 2000>>, <<-1000, -2000>>,
     <<1000, 1000>>}

AtCorner(d1, d2, vmax, a, cf) ==
    [stage |-> "corner", s1 |-> Segment(<<0, 0>>, d1),
     s2 |-> Segment(d1, <<d1[1] + d2[1], d1[2] + d2[2]>>),
     max_velocity |-> vmax, acceleration |-> a, corner_factor |-> cf]

CornerVelocity ==
    /\ planning.stage = "corner"
    /\ planning' = [planning EXCEPT !.stage = "cornered"] @@
                   [result |-> corner_velocity(planning.s1, planning.s2, planning.max_velocity,
                                               planning.acceleration, planning.corner_factor)]
    /\ UNCHANGED <<pc, connected, is_lowered, step_mode, motor1_enabled,
                   motor2_enabled, rx, last, q_m1, q_m2, q_ms, built, sp_acked,
                   em_acked, options, draw, plan>>

CornerInit ==
    /\ DeviceReady(FALSE, TRUE, TRUE, 1)
    /\ options = DefaultOptions
    /\ draw = NoDrawing
    /\ plan = NoPlan
    /\ planning \in {AtCorner(d1, d2, v, ACCELERATION, cf) :
                        d1 \in Directions, d2 \in Directions, v \in Ceilings,
                        cf \in CornerFactors}

CornerNext == CornerVelocity

CornerSpec == CornerInit /\ [][CornerNext]_vars

\* The look-ahead loop of Plan::new, lines 79-155, on floating-point
\* numbers.  A double carries 53 significant bits, and EPSILON = 1e-9 is
\* the spacing of the doubles at 8e6.  Here a number carries FloatPrecision
\* significant bits and EPSILON is EPSILON_FLOAT, the spacing of the
\* numbers at 2^14: as with doubles, small numbers are spaced closer than
\* the tolerance and large ones further apart.  Every number used is 0 or
\* at least 2^(FloatPrecision - 1), so that it is whole.
FloatPrecision == 8

EPSILON_FLOAT == 64

\* the spacing of the floating-point numbers at x >= 0
RECURSIVE spacing(_, _)
spacing(x, q) == IF x \div q < 2 ^ FloatPrecision THEN q ELSE spacing(x, 2 * q)

\* the floating-point number nearest to x, ties to the even one
fl(x) ==
    LET y == IF x < 0 THEN -x ELSE x
        q == spacing(y, 1)
        m == y \div q
        r == y % q
        n == IF 2 * r > q \/ (2 * r = q /\ m % 2 = 1) THEN m + 1 ELSE m
    IN  IF x < 0 THEN -(n * q) ELSE n * q

\* f64::sqrt: the floating-point number nearest to the square root of x >= 0
fl_sqrt(x) ==
    LET r == sqrt(x)
        q == spacing(r, 1)
        lo == (r \div q) * q
    IN  IF 4 * x > (2 * lo + q) * (2 * lo + q) THEN fl(lo + q) ELSE fl(lo)

\* one turn of the loop, lines 81-152, on the lengths and velocities of the
\* segments; the blocks, which the loop never reads, are left to look_ahead.
\* The acceleration is a power of two, so that the products and quotients
\* by it are exact
forward_turn(length, max_entry_velocity, entry_velocity, i, a) ==
    LET s == length[i + 1]
        vi == entry_velocity[i + 1]
        vmax_segment == max_entry_velocity[i + 1]
        vexit == IF max_entry_velocity[i + 2] < vmax_segment
                 THEN max_entry_velocity[i + 2] ELSE vmax_segment
        two_a_s == fl(fl(2 * a) * s)
        s1 == fl(fl(two_a_s + fl(vexit * vexit)) - fl(vi * vi)) \div (4 * a)
        s2 == fl(s - s1)
    IN  IF s1 < -EPSILON_FLOAT
        THEN [max_entry_velocity |-> [max_entry_velocity EXCEPT
                                        ![i + 1] = fl_sqrt(fl(fl(vexit * vexit) + two_a_s))],
              entry_velocity |-> entry_velocity,
              i |-> IF i > 0 THEN i - 1 ELSE i,
              break |-> i = 0]
        ELSE IF s2 <= 0
        THEN [max_entry_velocity |-> max_entry_velocity,
              entry_velocity |-> [entry_velocity EXCEPT
                                    ![i + 2] = fl_sqrt(fl(fl(vi * vi) + two_a_s))],
              i |-> i + 1, break |-> FALSE]
        ELSE [max_entry_velocity |-> max_entry_velocity,
              entry_velocity |-> [entry_velocity EXCEPT ![i + 2] = vexit],
              i |-> i + 1, break |-> FALSE]

\* Plan::new, lines 44-76: the segments of a path with the given lengths and
\* corner velocities, and the segment of length 0 at its end
AtForwardPass(lengths, corners, a) ==
    [stage |-> "forward",
     length |-> lengths \o <<0>>,
     max_entry_velocity |-> <<0>> \o corners \o <<0>>,
     entry_velocity |-> [n \in 1..(Len(lengths) + 1) |-> 0],
     i |-> 0, acceleration |-> a]

ForwardTurn ==
    /\ planning.stage = "forward"
    /\ planning.i < Len(planning.length) - 1
    /\ \E r \in {forward_turn(planning.length, planning.max_entry_velocity,
                              planning.entry_velocity, planning.i, planning.acceleration)} :
           planning' = [planning EXCEPT !.max_entry_velocity = r.max_entry_velocity,
                                        !.entry_velocity = r.entry_velocity,
                                        !.i = r.i,
                                        !.stage = IF r.break THEN "forward_break" ELSE "forward"]
    /\ UNCHANGED <<pc, connected, is_lowered, step_mode, motor1_enabled,
                   motor2_enabled, rx, last, q_m1, q_m2, q_ms, built, sp_acked,
                   em_acked, options, draw, plan>>

\* the loop condition of line 80 fails
ForwardDone ==
    /\ planning.stage = "forward"
    /\ planning.i >= Len(planning.length) - 1
    /\ planning' = [planning EXCEPT !.stage = "forward_done"]
    /\ UNCHANGED <<pc, connected, is_lowered, step_mode, motor1_enabled,
                   motor2_enabled, rx, last, q_m1, q_m2, q_ms, built, sp_acked,
                   em_acked, options, draw, plan>>

\* paths of three segments: lengths of 8192 and more, in steps the numbers
\* can hold, straight corners at max_velocity
FirstLengths == {8192, 16384}

MiddleLengths == {32768, 131072, 524288}

LastLengths == {8192 * k : k \in {1, 2, 3, 5, 6, 7, 10, 12, 14}}

ForwardInit ==
    /\ DeviceReady(FALSE, TRUE, TRUE, 1)
    /\ options = DefaultOptions
    /\ draw = NoDrawing
    /\ plan = NoPlan
    /\ planning \in {AtForwardPass(<<s0, s1, s2>>, <<32768, 32768>>, 1) :
                        s0 \in FirstLengths, s1 \in MiddleLengths, s2 \in LastLengths}

ForwardNext == ForwardTurn \/ ForwardDone

\* the thread that plans runs on: the loop is left once its condition
\* fails, and no turn of it is begun and never finished
ForwardSpec ==
    /\ ForwardInit /\ [][ForwardNext]_vars
    /\ WF_vars(ForwardDone)
    /\ \A k \in 0..2 : []<>~(planning.stage = "forward" /\ planning.i = k)

\* Plan::instant on plans of up to MaxBlocks blocks laid end to end along
\* the x axis: blocks of 0.1 s and 0.2 s at 1 unit/s, blocks that last no
\* time, which Plan::new leaves out, and blocks at rest that never end
MaxBlocks == 4

BlockDurations == {0, 100000, 200000, Inf}

\* the length of a block in thousandths of a unit
block_length(d) == IF d = Inf THEN 50 ELSE d \div 1000

RECURSIVE block_start(_, _)
block_start(ds, n) == IF n = 1 THEN 0 ELSE block_start(ds, n - 1) + block_length(ds[n - 1])

blocks_lasting(ds) ==
    [n \in 1..Len(ds) |->
        Block(0, ds[n], IF ds[n] = Inf THEN 0 ELSE 1000,
              <<block_start(ds, n), 0>>, <<block_start(ds, n + 1), 0>>)]

\* the times Plan::instant is asked for: before the start, the starts and
\* ends of blocks, times within blocks, beyond every finite end, never
Instants == {-100000, 0, 50000, 100000, 150000, 200000, 300000, 400000, 450000, 900000, Inf}

AtInstant(ds, t) ==
    [stage |-> "plan", plan |-> plan_of(<<[blocks |-> blocks_lasting(ds)]>>), t |-> t]

PlanInstant ==
    /\ planning.stage = "plan"
    /\ planning' = [stage |-> "instant", plan |-> planning.plan, t |-> planning.t,
                    block_index |-> block_index_at(planning.plan, planning.t),
                    result |-> plan_instant(planning.plan, planning.t)]
    /\ UNCHANGED <<pc, connected, is_lowered, step_mode, motor1_enabled,
                   motor2_enabled, rx, last, q_m1, q_m2, q_ms, built, sp_acked,
                   em_acked, options, draw, plan>>

InstantInit ==
    /\ DeviceReady(FALSE, TRUE, TRUE, 1)
    /\ options = DefaultOptions
    /\ draw = NoDrawing
    /\ plan = NoPlan
    /\ planning \in {AtInstant(ds, t) :
                        ds \in UNION {[1..n -> BlockDurations] : n \in 0..MaxBlocks},
                        t \in Instants}

InstantNext == PlanInstant

InstantSpec == InstantInit /\ [][InstantNext]_vars

\* dedup_points on every path of up to MaxPoints points that lie one to
\* three grid units apart
DedupPoints == {<<0, 0>>, <<1, 0>>, <<2, 0>>, <<3, 0>>, <<2, 2>>}

MaxPoints == 4

DedupInputs == UNION {[1..n -> DedupPoints] : n \in 0..MaxPoints}

DedupInit ==
    /\ DeviceReady(FALSE, TRUE, TRUE, 1)
    /\ options = DefaultOptions
    /\ draw = NoDrawing
    /\ plan = NoPlan
    /\ planning \in {StartPlanning(pts, ACCELERATION, MAX_VELOCITY * 1000, CORNER_FACTOR) :
                        pts \in DedupInputs}

DedupNext == PlanDedup

DedupSpec == DedupInit /\ [][DedupNext]_vars

-----------------------------------------------------------------------------
(* Teardown *)

InTeardown == pc \in {"drop_poll", "drop_sleep", "drop_em"}

\* the bytes read for a QM say that neither motor moves: QM,c,0,0,f
reports_idle(response) ==
    LET parts == split(trim(response), ",")
    IN  /\ Len(parts) = 5
        /\ parts[1] = <<"Q", "M">>
        /\ trim(parts[3]) = <<"0">>
        /\ trim(parts[4]) = <<"0">>

\* C1: during teardown EM,0,0 is transmitted only when the most recent QM
\* reply reported both motors idle, and the port is marked closed no earlier
\* than the step that attempts EM,0,0.
C1_TeardownOrder ==
    [][ /\ (pc = "drop_em" /\ last'.writes = 1)
            => (last.op = "motor_status" /\ reports_idle(last.response))
        /\ (InTeardown /\ connected /\ ~connected') => pc = "drop_em" ]_vars

\* C2: once the session ends - the device is dropped, or main gives up after
\* a failed command - the teardown completes and the port is released,
\* whatever the board replies.
C2_TeardownReleases ==
    (InTeardown \/ pc = "exited") ~> (connected = FALSE)

-----------------------------------------------------------------------------
(* command *)

\* the part of the bytes read that the board sent in reply to this command
own_bytes(c) == SubSeq(c.response, Len(c.stale) + 1, Len(c.response))

\* C3: one command at a time: when a command is written no byte of an
\* earlier command's reply is still to be read, so what the command returns
\* is made of the bytes sent in reply to it.
C3_Synchronous ==
    (last.writes = 1 /\ last.io = "ok") =>
        /\ last.stale = <<>>
        /\ last.result = "Ok" => starts_with(own_bytes(last), last.payload)

C5_RejectsByLength ==
    [][ ( /\ last'.op = "command"
          /\ \/ last'.cmd = <<>>
             \/ ~is_ascii(last'.cmd)
             \/ contains_crlf(last'.cmd)
             \/ Len(last'.cmd) + 1 > MaxLine )
        => ( /\ last'.writes = 0
             /\ last'.result = "CommandError"
             /\ cache' = cache ) ]_vars

\* C5, amended: the length that is limited to 256 bytes is that of the line
\* sent, the command without the blanks around it plus the CR.
C5_RejectsInvalid ==
    [][ ( /\ last'.op = "command"
          /\ \/ last'.cmd = <<>>
             \/ ~is_ascii(last'.cmd)
             \/ contains_crlf(last'.cmd)
             \/ Len(trim(last'.cmd)) + 1 > MaxLine )
        => ( /\ last'.writes = 0
             /\ last'.line = <<>>
             /\ last'.result = "CommandError"
             /\ cache' = cache
             /\ rx' = rx ) ]_vars

C5_Witness ==
    /\ last.op = "command"
    /\ Len(trim(last.cmd)) = MaxLine
    /\ last.result = "CommandError"
    /\ last.writes = 0
    /\ connected

\* C6 as stated: with the OK expected, the call succeeds exactly when the
\* reply ends with OK CR LF, returns the reply without that suffix, and
\* otherwise fails with InvalidResponse.
C6_StripsOneOk ==
    (last.writes = 1 /\ last.io = "ok" /\ expects_ok(last.cmd)) =>
        IF ends_with(last.response, OKCRLF)
        THEN /\ last.result = "Ok"
             /\ last.payload = SubSeq(last.response, 1, Len(last.response) - 4)
        ELSE last.result = "InvalidResponse"

\* C6, amended: the call succeeds exactly when the reply ends with OK CR LF
\* and returns the reply without any of the OK CR LF it ends with (all of
\* them, when the suffix is repeated); otherwise it fails with a command error.
C6_StripsEveryOk ==
    (last.op = "command" /\ last.writes = 1 /\ last.io = "ok"
       /\ expects_ok(last.cmd)) =>
        IF ends_with(last.response, OKCRLF)
        THEN /\ last.result = "Ok"
             /\ ~ends_with(last.payload, OKCRLF)
             /\ \E n \in 1..(Len(last.response) \div 4) :
                   /\ Len(last.payload) + 4 * n = Len(last.response)
                   /\ starts_with(last.response, last.payload)
                   /\ \A k \in 1..n :
                         SubSeq(last.response, Len(last.payload) + 4 * k - 3,
                                Len(last.payload) + 4 * k) = OKCRLF
        ELSE last.result = "CommandError" /\ last.payload = <<>>

C6_Witness ==
    /\ last.op = "command"
    /\ last.cmd = <<"Q", "S">>
    /\ last.response = ReplyOK \o ReplyPenUp
    /\ last.result = "Ok"
    /\ last.payload = ReplyOK \o <<"1", CR, LF>>

\* the name of a command: its text up to the first comma
cmd_name(cmd) == to_uppercase(split(trim(cmd), ",")[1])

\* C7: the OK is required for a command exactly when its name is none of
\* V, I, A, MR, PI, QM.
C7_OkByName ==
    (last.op = "command" /\ last.writes = 1 /\ last.io = "ok") =>
        IF cmd_name(last.cmd) \in no_ok_commands
        THEN last.result = "Ok"
        ELSE last.result = "Ok" <=> ends_with(last.response, OKCRLF)

-----------------------------------------------------------------------------
(* The cached state *)

\* C8: after pen_state calls is_lowered is (V = 0) for the V of the last
\* acknowledged call, and a failing call leaves it as it was.
C8_PenCache ==
    [][ /\ sp_acked' # -1 => (is_lowered' = (sp_acked' = 0))
        /\ (last'.op = "pen_state" /\ last'.result # "Ok")
              => (is_lowered' = is_lowered /\ sp_acked' = sp_acked) ]_vars

C8_Witness ==
    /\ last.op = "pen_state"
    /\ last.result = "Ok"
    /\ last.line = <<"S", "P", ",", "0", ",", "0", CR>>
    /\ is_lowered

\* C9: once an EM has been acknowledged the cached motor flags and step mode
\* are the ones of the last acknowledged EM,enable1,enable2.
C9_MotorCache ==
    em_acked # <<>> =>
        /\ motor1_enabled = (em_acked[1] # 0)
        /\ motor2_enabled = (em_acked[2] # 0)
        /\ em_acked[1] # 0 => step_mode = em_acked[1]

\* C10: an acknowledged ES,1 marks both motors disabled; a plain ES and a
\* failed abort leave the cached motor flags and step mode as they were.
C10_AbortCache ==
    [][ last'.op = "abort_motors" =>
          IF last'.result = "Ok" /\ last'.cmd = <<"E", "S", ",", "1">>
          THEN ~motor1_enabled' /\ ~motor2_enabled'
          ELSE motors' = motors ]_vars

C10_Witness ==
    /\ last.op = "abort_motors"
    /\ last.line = <<"E", "S", ",", "1", CR>>
    /\ last.result = "Ok"
    /\ ~motor1_enabled
    /\ ~motor2_enabled
    /\ step_mode = 0

-----------------------------------------------------------------------------
(* Connection *)

\* the PI lines of the claim, in its order
PinOrder ==
    << <<"P", "I", ",", "E", ",", "0", CR>>,
       <<"P", "I", ",", "C", ",", "1", CR>>,
       <<"P", "I", ",", "E", ",", "2", CR>>,
       <<"P", "I", ",", "E", ",", "1", CR>>,
       <<"P", "I", ",", "A", ",", "6", CR>> >>

\* the decode table of the claim: (MS1, MS2, MS3) to the number of the mode
StepModeTable ==
    (<<TRUE, TRUE, TRUE>> :> 1) @@ (<<TRUE, TRUE, FALSE>> :> 2)
    @@ (<<FALSE, TRUE, FALSE>> :> 3) @@ (<<TRUE, FALSE, FALSE>> :> 4)
    @@ (<<FALSE, FALSE, FALSE>> :> 5)

\* C11: Device::new reads E.0, C.1, E.2, E.1, A.6 with PI in that order, each
\* after the one before was answered; the three MS values decode by the
\* table (the mode is the one enabled with EM and cached), and a
\* combination outside the table makes new fail with InvalidResponse.
C11_MicrostepDecode ==
    [][ /\ (last' # last /\ last'.op = "read_pin" /\ last'.line # <<>>) =>
              \E k \in 1..5 :
                  /\ last'.line = PinOrder[k]
                  /\ last.result = "Ok"
                  /\ IF k = 1 THEN last.op = "query_pen_state"
                     ELSE last.op = "read_pin" /\ last.line = PinOrder[k - 1]
        /\ (last' # last /\ last'.op = "read_pin" /\ last'.line = PinOrder[5]
              /\ last'.response \in {ReplyPinHigh, ReplyPinLow}) =>
              LET bits == q_ms \o <<last'.response = ReplyPinHigh>>
              IN  IF bits \in DOMAIN StepModeTable
                  THEN /\ last'.result = "Ok"
                       /\ pc' \in {"ready", "new_em"}
                       /\ built' => step_mode' = StepModeTable[bits]
                  ELSE /\ last'.result = "InvalidResponse"
                       /\ ~built'
                       /\ pc' = "drop_poll"
        /\ (last'.op = "enable_motors" /\ ~built /\ pc = "new_em") =>
              /\ last.op = "read_pin" /\ last.line = PinOrder[5]
              /\ q_ms \in DOMAIN StepModeTable
              /\ last'.line = <<"E", "M", ",">> \o fmt(StepModeTable[q_ms])
                                \o <<",", "1", CR>>
              /\ built' => step_mode' = StepModeTable[q_ms] ]_vars

C11_Witness ==
    /\ last.op = "read_pin"
    /\ last.line = PinOrder[5]
    /\ last.response = ReplyPinHigh
    /\ last.result = "InvalidResponse"
    /\ pc = "drop_poll"
    /\ ~built

-----------------------------------------------------------------------------
(* The typed methods *)

\* a call that returned InvalidValue and left the port alone
rejected(r) ==
    /\ r.result = "InvalidValue"
    /\ r.writes = 0
    /\ r.line = <<>>
    /\ r.rx = rx

\* C12: in every state a device can be in, pen_state, nickname, read_pin,
\* pin_direction, home, stepper_move and stepper_move_mixed called with an
\* argument outside its range (as the claim lists them) return InvalidValue,
\* with nothing written to the port and the cached state as it was.
C12_InvalidValue ==
    \A a \in ApiAnswers :
        /\ \A value \in PenValues, duration \in PenDurations, pin \in PenPins :
              ( \/ value \notin {0, 1}
                \/ duration # None /\ duration[1] \notin 1..65535
                \/ pin # None /\ pin[1] > 7 )
              => \E r \in {pen_state(value, duration, pin, connected, rx,
                                     a.reply, a.late, a.io)} :
                     /\ rejected(r)
                     /\ pen_state_lowered(value, r, is_lowered) = is_lowered
        /\ \A name \in Nicknames :
              (Len(name) > 16 \/ ~is_ascii(name))
              => rejected(nickname(name, connected, rx, a.reply, a.late, a.io))
        /\ \A port \in PortArgs, pin \in PinArgs :
              (port \notin {"A", "B", "C", "D", "E"} \/ pin > 7)
              => rejected(read_pin(port, pin, connected, rx,
                                   a.reply, a.late, a.io))
        /\ \A port \in PortArgs, pin \in PinArgs, direction \in DirectionArgs :
              (port \notin {"A", "B", "C", "D", "E"} \/ pin > 7 \/ direction > 1)
              => rejected(pin_direction(port, pin, direction, connected, rx,
                                        a.reply, a.late, a.io))
        /\ \A frequency \in Frequencies, p1 \in Positions, p2 \in Positions :
              frequency \notin 2..25000
              => rejected(home(frequency, p1, p2, connected, rx,
                               a.reply, a.late, a.io))
        /\ \A duration \in MoveDurations, s1 \in StepArgs :
              duration \notin 1..16777215
              => /\ \A s2 \in OptionalSteps :
                      rejected(stepper_move(duration, s1, s2, connected, rx,
                                            a.reply, a.late, a.io))
                 /\ \A s2 \in StepArgs :
                      rejected(stepper_move_mixed(duration, s1, s2, connected,
                                                  rx, a.reply, a.late, a.io))
        /\ last.result = "InvalidValue" => last.writes = 0 /\ last.line = <<>>

C12_Witness ==
    /\ last.op = "home"
    /\ last.result = "InvalidValue"
    /\ last.writes = 0
    /\ connected
    /\ rx # <<>>

\* the form NAME[,arg,...] CR of a command line: one CR, at the end, no
\* white space, a name of capital letters, no empty argument
wire_format(line) ==
    /\ line # <<>>
    /\ line[Len(line)] = CR
    /\ \A i \in 1..(Len(line) - 1) : line[i] \notin Whitespace
    /\ LET fields == split(SubSeq(line, 1, Len(line) - 1), ",")
       IN  /\ \A i \in 1..Len(fields) : fields[i] # <<>>
           /\ \A j \in 1..Len(fields[1]) :
                 \E k \in 1..26 : UpperCase[k] = fields[1][j]

\* C13: every line a typed method transmits has the form of the command
\* table: the name, the arguments after single commas with no white space,
\* and one CR at the end.
C13_WireFormat ==
    (last.op \notin {"none", "command", "disconnect"} /\ last.writes = 1)
        => wire_format(last.line)

\* C14: pen_down transmits "SP,0,<delay>" whose delay is
\* round(1000 * |pen_up_position - pen_down_position| / pen_down_speed)
\* + pen_down_delay, for every pen configuration with a positive speed.
claimed_pen_down_delay(o) ==
    round_ratio(1000 * abs(o.pen_up_position - o.pen_down_position), o.pen_down_speed)
    + o.pen_down_delay

C14_PenDownDelay ==
    (last.op = "pen_down" /\ last.result # "ConnectionError")
        => last.line = <<"S", "P">> \o comma \o <<"0">> \o comma
                       \o fmt(claimed_pen_down_delay(options)) \o <<CR>>


\* C40: for every configuration with positive pen speeds and non-negative
\* delays, pen_up and pen_down on a connected device each transmit exactly
\* one SP command and never fail the validation of pen_state, also when the
\* two positions are equal with zero delay and when the computed delay
\* exceeds 65535 ms.
pen_configured ==
    /\ options.pen_up_speed > 0 /\ options.pen_down_speed > 0
    /\ options.pen_up_delay >= 0 /\ options.pen_down_delay >= 0

C40_PenAlwaysTransmits ==
    (last.op \in {"pen_up", "pen_down"} /\ pen_configured
     /\ last.result # "ConnectionError")
        => /\ last.result # "InvalidValue"
           /\ last.writes = 1
           /\ Len(last.line) > 3
           /\ SubSeq(last.line, 1, 3) = <<"S", "P">> \o comma

-----------------------------------------------------------------------------
(* The orchestration of a drawing *)

\* a step of run_plan that put an XM on the wire
sends_xm ==
    /\ draw.stage \in {"travel", "stream"}
    /\ plan'.k = plan.k + 1 \/ draw'.stage = "failed"
    /\ last'.op = "stepper_move_mixed" /\ last'.writes >= 1

\* C15: during draw every XM of a travel to a polyline's first point is
\* transmitted while the last acknowledged SP is SP,1, and every XM that
\* streams a polyline while the last acknowledged SP is SP,0, also when
\* consecutive polylines share an endpoint.
C15_PenInterleaving ==
    [][sends_xm => /\ draw.stage = "travel" => sp_acked = 1
                   /\ draw.stage = "stream" => sp_acked = 0]_vars

\* the second of two polylines that share an endpoint is being streamed
C15_Witness ==
    /\ draw.paths = <<<<PtA, PtB>>, <<PtB, PtC>>>>
    /\ draw.i = 2 /\ draw.stage = "stream" /\ plan.k = 1
    /\ last.op = "stepper_move_mixed" /\ last.result = "Ok"
    /\ sp_acked = 0

\* C16: between two consecutive polylines draw issues pen_up exactly when
\* the distance from the last point of the one to the first point of the
\* next exceeds 1e-9.
C16_LiftBeyondEpsilon ==
    [][(draw.stage = "stream" /\ draw'.stage \in {"lift", "polyline"}
        /\ draw'.i <= Len(draw.paths))
       => (draw'.stage = "lift"
             <=> exceeds(draw'.last_position, draw.paths[draw'.i][1], PLAN_EPSILON))]_vars

\* C17: draw passes over every empty polyline, wherever it stands, sends no
\* command for it and goes on with the polylines that follow.
C17_SkipsEmpty ==
    /\ draw.stage # "panicked"
    /\ draw.stage \in {"travel", "pen_down", "stream"} => draw.paths[draw.i] # <<>>

\* the frequency written in an "HM,<frequency>" line
hm_frequency(line) ==
    IF /\ Len(line) >= 5
       /\ SubSeq(line, 1, 3) = <<"H", "M">> \o comma
       /\ line[Len(line)] = CR
       /\ \A n \in 4..(Len(line) - 1) : is_digit(line[n])
    THEN nat_value(SubSeq(line, 4, Len(line) - 1))
    ELSE -1

\* C18: a draw that succeeds ends with a pen raise (SP,1 acknowledged)
\* followed by HM with a step frequency within 2..25000; after that pen
\* raise no pen-down and no XM is transmitted.
C18_EndsRaisedAtHome ==
    [][/\ (draw.stage # "done" /\ draw'.stage = "done")
          => /\ last.op = "pen_up" /\ last.result = "Ok" /\ sp_acked = 1
             /\ last'.op = "home" /\ last'.result = "Ok"
             /\ hm_frequency(last'.line) \in HM_MIN_FREQUENCY..HM_MAX_FREQUENCY
       /\ draw.stage \in {"home", "done"}
          => last'.op \notin {"pen_down", "stepper_move_mixed"}]_vars

\* a drawing was finished at a velocity beyond the range of HM
C18_Witness ==
    /\ draw.stage = "done" /\ draw.paths # <<>>
    /\ options.max_velocity = 1000
    /\ last.op = "home" /\ hm_frequency(last.line) = HM_MAX_FREQUENCY
    /\ sp_acked = 1

PenMotionOps == {"zero_position", "pen_up", "pen_down", "stepper_move_mixed", "home"}

DrawCommandStages ==
    {"zero_position", "pen_up", "lift", "final_pen_up", "travel", "stream",
     "pen_down", "home"}

\* C19: when a device command fails during draw, draw returns the error at
\* once and transmits no further pen or motion command.
C19_StopsAtFirstError ==
    [][/\ (draw.stage \in DrawCommandStages /\ last'.result # "Ok")
          => draw'.stage = "failed"
       /\ draw.stage = "failed"
          => /\ draw'.stage = "failed"
             /\ last' = last \/ last'.op \notin PenMotionOps]_vars

\* an XM failed while a polyline was being streamed, and the device was
\* then dropped
C19_Witness ==
    /\ draw.stage = "failed" /\ draw.i = 1 /\ plan.k = 1
    /\ is_lowered /\ sp_acked = 0
    /\ pc = "closed"

\* C20: for any plan, on each axis the sum of the step deltas of all XM
\* commands that run_plan issues equals round(steps_per_unit * (end - start)).
C20_StepsPreserved ==
    draw.stage = "returned"
        => \A axis \in 1..2 :
              plan.sum[axis] =
                  to_steps(plan.samples[Len(plan.samples)][axis] - plan.samples[1][axis],
                           options.steps_per_unit)

-----------------------------------------------------------------------------
(* The planner *)

\* two points are no more than 1e-9 apart
within_eps(p, q) ==
    (p[1] - q[1]) * (p[1] - q[1]) + (p[2] - q[2]) * (p[2] - q[2])
        <= PLAN_EPSILON * PLAN_EPSILON

\* kept[j] is the place in pts of the j-th point of out: the first point is
\* kept, a point is kept when it is more than 1e-9 from the point kept
\* before it, and every point between two kept ones is within 1e-9 of the
\* earlier one
keeps(pts, out, kept) ==
    /\ \A j \in 1..Len(out) : out[j] = pts[kept[j]]
    /\ Len(out) >= 1 => kept[1] = 1
    /\ \A j \in 2..Len(out) :
          kept[j - 1] < kept[j] /\ ~within_eps(pts[kept[j - 1]], pts[kept[j]])
    /\ \A n \in 1..Len(pts) :
          (\A j \in 1..Len(out) : kept[j] # n)
              => \E j \in 1..Len(out) :
                    /\ kept[j] < n
                    /\ j < Len(out) => n < kept[j + 1]
                    /\ within_eps(pts[kept[j]], pts[n])

\* C29: deduplication keeps the first point and drops every later point
\* within 1e-9 of the last kept point, in order; no two consecutive points
\* of its output are within 1e-9, and applying it again changes nothing.
C29_Dedup ==
    planning.stage \in {"returned", "segments", "panicked"}
        => LET pts == planning.points
               out == planning.deduped
           IN  /\ (pts = <<>>) = (out = <<>>)
               /\ \E kept \in [1..Len(out) -> 1..Len(pts)] : keeps(pts, out, kept)
               /\ \A j \in 1..(Len(out) - 1) : ~within_eps(out[j], out[j + 1])
               /\ dedup_points(out, PLAN_EPSILON) = out

\* a point exactly 1e-9 from the kept one was dropped and a later one kept
C29_Witness ==
    /\ planning.stage = "segments"
    /\ planning.points = <<<<0, 0>>, <<2, 0>>, <<1, 0>>, <<3, 0>>>>
    /\ planning.deduped = <<<<0, 0>>, <<3, 0>>>>

\* C21: run_plan comes to an end on every plan Plan::new returns, and when
\* it returns Ok it has sent one XM per started 100 ms of total_time, the
\* slices following one another from 0
C21_RunPlanTerminates ==
    /\ <>(draw.stage \in {"returned", "failed"} \/ planning.stage = "panicked")
    /\ [](draw.stage = "returned" =>
             /\ finite(planning.result.total_time)
             /\ plan.t = step_us * ((planning.result.total_time + step_us - 1) \div step_us))

returned == planning.stage = "returned"

\* the polyline the plan was made for, in thousandths of a unit
planned_points == [n \in 1..Len(planning.deduped) |-> to_milli(planning.deduped[n])]

near(x, y, tolerance) == finite(x) /\ finite(y) /\ x - y <= tolerance /\ y - x <= tolerance

\* C22: the distances of the blocks of a returned plan add up to the length
\* of the deduplicated polyline, within one thousandth of a unit per block
\* and point
C22_TotalDistance ==
    returned =>
        near(planning.result.total_distance,
             polyline_length(planned_points, Len(planned_points)),
             Len(planning.result.blocks) + Len(planned_points))

\* C23: the velocity at the end of the last block of a returned plan is 0
\* (within 0.002 units/s)
C23_EndsAtRest ==
    (returned /\ planning.result.blocks # <<>>) =>
        LET b == planning.result.blocks[Len(planning.result.blocks)]
        IN  near(velocity_at(b, b.duration), 0, 2)

\* C24: in a returned plan every block ends at the velocity at which the
\* next block starts (within 0.002 units/s)
C24_VelocityContinuous ==
    returned =>
        \A n \in 1..(Len(planning.result.blocks) - 1) :
            near(velocity_at(planning.result.blocks[n], planning.result.blocks[n].duration),
                 planning.result.blocks[n + 1].initial_velocity, 2)

C26_OnlyLastingBlocks ==
    returned =>
        /\ \A n \in 1..Len(planning.result.blocks) :
               fgt(planning.result.blocks[n].duration, 0)
        /\ Len(planning.deduped) = 1 =>
               /\ planning.result.total_time = 0
               /\ planning.result.total_distance = 0

\* C27: the plan of two points s apart, with sqrt(a * s) not above
\* max_velocity, is an acceleration block and a deceleration block of
\* sqrt(s / a) seconds each that meet at s / 2 with velocity sqrt(a * s)
C27_TwoPointTriangle ==
    (returned /\ Len(planning.deduped) = 2) =>
        LET s == distance(planned_points[1], planned_points[2])
            a == planning.acceleration
            peak == sqrt(a * s * 1000)
            blocks == planning.result.blocks
        IN  peak <= planning.max_velocity =>
                /\ Len(blocks) = 2
                /\ blocks[1].acceleration = a
                /\ blocks[2].acceleration = -a
                /\ near(blocks[1].duration, blocks[2].duration, 1000)
                /\ near(blocks[1].duration, (peak * 1000) \div a, 1000)
                /\ near(blocks[1].distance, s \div 2, 2)
                /\ near(blocks[2].initial_velocity, peak, 2)

\* C28: a turn of the forward pass raises no segment's max_entry_velocity,
\* and a turn that backtracks lowers the max_entry_velocity of the segment
\* it was on
C28_CeilingDecreases ==
    [][(planning.stage = "forward" /\ planning'.stage \in {"forward", "forward_break"}) =>
          /\ \A n \in 1..Len(planning.length) :
                 planning'.max_entry_velocity[n] <= planning.max_entry_velocity[n]
          /\ planning'.i <= planning.i =>
                 planning'.max_entry_velocity[planning.i + 1]
                     < planning.max_entry_velocity[planning.i + 1]]_vars

\* C39: the forward pass never takes the break of line 109: while it runs
\* the index is not negative, the first segment's entry velocity is 0, the
\* max_entry_velocity of the segment of length 0 at the end is 0, and a turn
\* on the first segment does not backtrack
C39_NeverAtBreak ==
    /\ planning.stage # "finish"
    /\ planning.stage = "look_ahead" =>
          /\ planning.i >= 0
          /\ planning.segments[1].entry_velocity = 0
          /\ planning.segments[Len(planning.segments)].max_entry_velocity = 0
          /\ (planning.i = 0 /\ Len(planning.segments) > 1) =>
                 \E r \in {look_ahead(planning.segments, 0, planning.acceleration)} :
                     ~r.break /\ r.i = 1

\* the forward pass has gone back from the third segment of a path to the
\* second, which it entered at rest
C39_Witness ==
    /\ planning.stage = "look_ahead"
    /\ planning.i = 1
    /\ Len(planning.segments) = 4
    /\ planning.segments[2].entry_velocity = 0
    /\ planning.segments[3].entry_velocity > planning.segments[3].max_entry_velocity

\* C30: every block of a returned plan is as long as its velocity,
\* acceleration and duration say: distance = initial_velocity * duration +
\* acceleration * duration^2 / 2, within 0.01 units
C30_BlockKinematics ==
    returned =>
        \A n \in 1..Len(planning.result.blocks) :
            LET b == planning.result.blocks[n]
            IN  near(b.distance, displacement_at(b, b.duration), 10)


-----------------------------------------------------------------------------
(* The corner velocity *)

\* the displacements of the two segments of the corner
corner_d1 == <<planning.s1.p2[1] - planning.s1.p1[1], planning.s1.p2[2] - planning.s1.p1[2]>>

corner_d2 == <<planning.s2.p2[1] - planning.s2.p1[1], planning.s2.p2[2] - planning.s2.p1[2]>>

corner_cross == corner_d1[1] * corner_d2[2] - corner_d1[2] * corner_d2[1]

corner_along == corner_d1[1] * corner_d2[1] + corner_d1[2] * corner_d2[2]

\* C31: corner_velocity is vmax between two segments of the same
\* direction and 0 between two of opposite directions, lies between 0 and
\* vmax, and is 0 wherever the path bends when the corner factor is 0
C31_CornerVelocity ==
    planning.stage = "cornered" =>
        /\ (corner_cross = 0 /\ corner_along > 0) => planning.result = planning.max_velocity
        /\ (corner_cross = 0 /\ corner_along < 0) => planning.result = 0
        /\ planning.result >= 0 /\ planning.result <= planning.max_velocity
        /\ (planning.corner_factor = 0 /\ ~(corner_cross = 0 /\ corner_along > 0)) =>
               planning.result = 0

-----------------------------------------------------------------------------
(* Opening and closing the device *)

\* C32: the step in which Device::new returns the device leaves in the
\* cached step_mode the mode DeviceOptions.step_mode put there, and an
\* EM command sent by new enabled both motors with that mode
C32_OpenedAtChosenMode ==
    [][(~built /\ built') =>
          /\ step_mode' = step_mode
          /\ last'.op = "enable_motors" =>
                 em_acked' = em_values(TRUE, TRUE, step_mode)]_vars

\* C33: the forward pass of Plan::new with its backtracking ends: the
\* loop is left with the index at the last segment, the one of length 0
C33_ForwardPassTerminates ==
    <>(planning.stage = "forward_done" /\ planning.i = Len(planning.length) - 1)

\* the clamped time of the instant asked for
instant_clamped == fclamp(planning.t, 0, planning.plan.total_time)

\* the last block that starts at or before the clamped time, found by going
\* through the blocks in order
RECURSIVE linear_scan(_, _, _)
linear_scan(times, clamped_t, n) ==
    IF n > Len(times) \/ flt(clamped_t, times[n]) THEN n - 1
    ELSE linear_scan(times, clamped_t, n + 1)

C37_SilentAfterDisconnect ==
    [][(~connected /\ last' # last /\ last'.op # "disconnect") =>
          /\ last'.writes = 0
          /\ last'.line = <<>>
          /\ last'.result # "Ok"]_vars

\* Drop::drop has run on a device that was disconnected before: its EM,0,0
\* was refused
C37_Witness ==
    /\ pc = "closed"
    /\ ~connected
    /\ built
    /\ last.op = "disable_motors"
    /\ last.result = "ConnectionError"
    /\ last.writes = 0

\* Device::new is at one of its commands
InNew == pc \notin {"ready", "exited", "closed", "drop_poll", "drop_sleep", "drop_em"}

\* C38: a Device::new that fails at one of its commands drops the device it
\* was building: the step that fails starts Drop::drop, no device is
\* returned afterwards, drop begins with the QM poll, and when new has
\* ended the last call was the EM,0,0 of drop and the port is closed
C38_FailedNewTornDown ==
    [][/\ (InNew /\ ~InNew' /\ ~built') => pc' = "drop_poll"
       /\ (~InNew /\ ~built) => ~built'
       /\ (~built /\ pc = "drop_poll" /\ pc' # pc) =>
              /\ last'.op = "motor_status"
              /\ last'.cmd = <<"Q", "M">>
       /\ (~built' /\ pc' = "closed") =>
              /\ pc = "drop_em"
              /\ last'.op = "disable_motors"
              /\ last'.cmd = em_cmd(<<0, 0>>)
              /\ ~connected']_vars

\* Device::new failed at a command, and the drop of its device has sent
\* EM,0,0 and closed the port
C38_Witness ==
    /\ pc = "closed"
    /\ ~built
    /\ ~connected
    /\ last.op = "disable_motors"
    /\ last.writes = 1

-----------------------------------------------------------------------------
(* The limits of the motor commands *)

\* a step count or position within the limit
within(n, limit) == n <= limit /\ n >= -limit

optional_within(n, limit) == n = None \/ within(n[1], limit)

\* C35: home, stepper_move and stepper_move_mixed end in no panic, and a
\* line they transmit carries no position of a magnitude above 4,294,967
\* and no step count of a magnitude above 16,777,215: a call with such an
\* argument, i32::MIN included, is rejected before it reaches the port
C35_StepLimits ==
    /\ last.op \in {"home", "stepper_move", "stepper_move_mixed"} => last.result # "panic"
    /\ (last.op = "home" /\ last.cmd # <<>>) =>
           \E position1 \in LimitPositions, position2 \in LimitPositions :
               /\ last.cmd = home_cmd(HM_MIN_FREQUENCY, position1, position2)
               /\ optional_within(position1, HM_MAX_POSITION)
               /\ optional_within(position2, HM_MAX_POSITION)
    /\ (last.op = "stepper_move" /\ last.cmd # <<>>) =>
           \E axis_steps1 \in LimitSteps, axis_steps2 \in OptionalLimitSteps :
               /\ last.cmd = stepper_move_cmd(1, axis_steps1, axis_steps2)
               /\ within(axis_steps1, SM_MAX)
               /\ optional_within(axis_steps2, SM_MAX)
    /\ (last.op = "stepper_move_mixed" /\ last.cmd # <<>>) =>
           \E axis_steps_a \in LimitSteps, axis_steps_b \in LimitSteps :
               /\ last.cmd = stepper_move_mixed_cmd(1, axis_steps_a, axis_steps_b)
               /\ within(axis_steps_a, SM_MAX)
               /\ within(axis_steps_b, SM_MAX)

\* C36: a line low_level_move transmits carries step counts of a magnitude
\* of at most 16,777,215 and a clear value of at most 3: a call with an
\* argument beyond them is rejected before it reaches the port
C36_LowLevelLimits ==
    (last.op = "low_level_move" /\ last.cmd # <<>>) =>
        \E rate1 \in Rates, steps1 \in LimitSteps, accel1 \in Accelerations, clear \in Clears :
            /\ last.cmd = low_level_move_cmd(rate1, steps1, accel1, 0, -SM_MAX, 0, clear)
            /\ within(steps1, SM_MAX)
            /\ clear = None \/ clear[1] <= 3

====
